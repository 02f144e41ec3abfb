-------------------------- MODULE TransactionDbCommits --------------------------
(***************************************************************************)
(* Commits: snapshots, the one write of a transaction, and the sequence    *)
(* numbers its keys are tracked at.                                        *)
(***************************************************************************)
EXTENDS TransactionDbLocks

\* Keys validated against a snapshot stay tracked at or before it.
LEMMA SnapshotFrame ==
  ASSUME TypeOK, TypeOK', NEW s \in Txn, SnapshotOk(s),
         kind'[s] = kind[s], snapshot'[s] = snapshot[s], seq <= seq',
         \A k \in Key : tracked'[s][k] \in {tracked[s][k], NotTracked}
  PROVE  SnapshotOk(s)'
<1>1. /\ seq \in Nat /\ seq' \in Nat /\ snapshot[s] \in Int
      /\ snapshot[s] # NoSnapshot => snapshot[s] \in Nat
  BY MaxSeqAssumption DEF TypeOK, NoSnapshot
<1>2. \A k \in Key : tracked[s][k] \in Int
  BY MaxSeqAssumption DEF TypeOK, NotTracked, kMaxSequenceNumber
<1>3. QED
  BY <1>1, <1>2 DEF SnapshotOk, DoValidate, NotTracked

\* Sequence numbers only grow.
LEMMA SeqGrows ==
  ASSUME TypeOK, NEW w, NEW t, WriteImpl(w, t)
  PROVE  seq <= seq'
  BY MaxSeqAssumption DEF TypeOK, WriteImpl, dbVars

\* No step moves a snapshot ahead of the published sequence number, or tracks a
\* key validated against a snapshot later than that snapshot.
LEMMA SnapshotStep == TypeOK /\ TypeOK' /\ CallInv /\ SnapshotInv /\ [Next]_vars => SnapshotInv'
<1> SUFFICES ASSUME TypeOK, TypeOK', CallInv, SnapshotInv, [Next]_vars, NEW s \in Txn
             PROVE  SnapshotOk(s)'
  BY DEF SnapshotInv
<1>0. SnapshotOk(s) /\ CallOk(s) /\ seq \in Nat
  BY MaxSeqAssumption DEF SnapshotInv, CallInv, TypeOK
<1>1. ASSUME UNCHANGED <<seq, kind, snapshot, tracked>> PROVE SnapshotOk(s)'
  BY <1>0, <1>1, SnapshotFrame
<1>2. ASSUME UNCHANGED vars PROVE SnapshotOk(s)'
  BY <1>1, <1>2 DEF vars, txnVars, dbVars
<1>3. ASSUME NEW t \in Txn, NEW o \in TxnOptions, Begin(t, o) PROVE SnapshotOk(s)'
  <2>1. seq' = seq /\ kind' = kind /\ tracked' = tracked
    BY <1>3 DEF Begin, dbVars
  <2>2. CASE s # t
    <3>1. snapshot'[s] = snapshot[s]
      BY <1>3, <2>2 DEF Begin, TypeOK
    <3>2. QED
      BY <1>0, <2>1, <3>1, SnapshotFrame
  <2>3. CASE s = t
    <3>1. snapshot'[s] \in {seq, NoSnapshot}
      BY <1>3, <2>3 DEF Begin, TypeOK
    <3>2. \A k \in Key : tracked[s][k] = NotTracked
      BY <1>0, <1>3, <2>3 DEF Begin, CallOk, Live, TrackedKeys
    <3>3. QED
      BY <1>0, <2>1, <3>1, <3>2 DEF SnapshotOk, DoValidate, NoSnapshot, NotTracked
  <2>4. QED
    BY <2>2, <2>3
<1>4. ASSUME NEW t \in Txn, NEW k \in Key, DbPut(t, k) PROVE SnapshotOk(s)'
  <2>1. seq' = seq /\ snapshot' = snapshot /\ tracked' = tracked
    BY <1>4 DEF DbPut, dbVars
  <2>2. s # t => kind'[s] = kind[s]
    BY <1>4 DEF DbPut, TypeOK
  <2>3. s = t => kind'[s] # "user"
    BY <1>4 DEF DbPut, TypeOK
  <2>4. CASE s # t
    BY <1>0, <2>1, <2>2, <2>4, SnapshotFrame
  <2>5. CASE s = t
    BY <1>0, <2>1, <2>3, <2>5 DEF SnapshotOk, DoValidate
  <2>6. QED
    BY <2>4, <2>5
<1>5. ASSUME NEW t \in Txn, NEW w \in Batches, DbWrite(t, w) PROVE SnapshotOk(s)'
  <2>1. seq' = seq /\ snapshot' = snapshot /\ tracked' = tracked
    BY <1>5 DEF DbWrite, dbVars
  <2>2. s # t => kind'[s] = kind[s]
    BY <1>5 DEF DbWrite, TypeOK
  <2>3. s = t => kind'[s] # "user"
    BY <1>5 DEF DbWrite, TypeOK
  <2>4. CASE s # t
    BY <1>0, <2>1, <2>2, <2>4, SnapshotFrame
  <2>5. CASE s = t
    BY <1>0, <2>1, <2>3, <2>5 DEF SnapshotOk, DoValidate
  <2>6. QED
    BY <2>4, <2>5
<1>6. ASSUME NEW t \in Txn, Acquire(t) \/ Steal(t) PROVE SnapshotOk(s)'
  <2>1. Granted(t) /\ rkey[t] \in Key /\ seq' = seq /\ snapshot' = snapshot /\ kind' = kind
    BY <1>6 DEF Acquire, Steal, Waiting, CallInv, CallOk, dbVars, TypeOK
  <2>2. CASE s # t
    BY <1>0, <2>1, <2>2, GrantedFrame, SnapshotFrame
  <2>3. CASE s = t /\ tracked' = tracked
    BY <1>0, <2>1, <2>3, SnapshotFrame
  <2>4. CASE s = t /\ tracked' # tracked
    <3>1. kind[t] # "user"
      BY <1>0, <2>1, <2>4, GrantedCases DEF CallOk
    <3>2. QED
      BY <1>0, <2>1, <2>4, <3>1 DEF SnapshotOk, DoValidate
  <2>5. QED
    BY <2>2, <2>3, <2>4
<1>7. ASSUME NEW t \in Txn, Validated(t) PROVE SnapshotOk(s)'
  <2>1. rkey[t] \in Key /\ seq' = seq /\ snapshot' = snapshot /\ kind' = kind
    BY <1>7 DEF Validated, CallInv, CallOk, dbVars, TypeOK
  <2>2. \A k \in Key : s # t \/ k # rkey[t] => tracked'[s][k] = tracked[s][k]
    BY <1>7, <2>1, ValidatedTracks
  <2>3. tracked'[t][rkey[t]] \in {tracked[t][rkey[t]], TrackSeq(t, rkey[t])}
    BY <1>7, <2>1, ValidatedTracks
  <2>4. CASE s # t
    BY <1>0, <2>1, <2>2, <2>4, SnapshotFrame
  <2>5. CASE s = t /\ ~DoValidate(t)
    BY <1>0, <2>1, <2>5 DEF SnapshotOk, DoValidate
  <2>6. CASE s = t /\ DoValidate(t)
    <3>1. TrackedAt(t, rkey[t]) \in Int /\ snapshot[t] \in Int
      BY <2>1, MaxSeqAssumption DEF TypeOK, TrackedAt, kMaxSequenceNumber, NotTracked, NoSnapshot
    <3>2. TrackSeq(t, rkey[t]) <= snapshot[t]
      BY <2>6, <3>1 DEF TrackSeq
    <3>3. QED
      BY <1>0, <2>1, <2>2, <2>3, <2>6, <3>2 DEF SnapshotOk, DoValidate
  <2>7. QED
    BY <2>4, <2>5, <2>6
<1>8. ASSUME NEW t \in Txn, CommitWrite(t) PROVE SnapshotOk(s)'
  <2>1. seq <= seq'
    BY <1>8, SeqGrows DEF CommitWrite
  <2>2. QED
    BY <1>0, <1>8, <2>1, SnapshotFrame DEF CommitWrite
<1>9. ASSUME NEW t \in Txn, NEW k \in Key, UnLock(t, k) PROVE SnapshotOk(s)'
  <2>1. \A j \in Key : tracked'[s][j] \in {tracked[s][j], NotTracked}
    BY <1>9 DEF UnLock, TypeOK
  <2>2. seq' = seq /\ snapshot' = snapshot /\ kind' = kind
    BY <1>9 DEF UnLock, dbVars
  <2>3. QED
    BY <1>0, <2>1, <2>2, SnapshotFrame
<1>10. ASSUME NEW w \in UnlockedBatches, DbWriteUnlocked(w) PROVE SnapshotOk(s)'
  <2>1. seq <= seq'
    BY <1>10, SeqGrows DEF DbWriteUnlocked
  <2>2. QED
    BY <1>0, <1>10, <2>1, SnapshotFrame DEF DbWriteUnlocked, txnVars
<1>11. ASSUME NEW t \in Txn,
              \/ Expire(t) \/ Commit(t) \/ Rollback(t) \/ Drop(t) \/ LockFail(t) \/ Invalid(t)
              \/ Undo(t) \/ CommitCas(t) \/ CommitWriteFail(t) \/ ClearDone(t) \/ DeleteDone(t)
              \/ \E k \in Key : Put(t, k) \/ PutUnlocked(t, k)
       PROVE  SnapshotOk(s)'
  <2>1. UNCHANGED <<seq, kind, snapshot, tracked>>
    BY <1>11 DEF Expire, Commit, Rollback, Drop, LockFail, Invalid, Undo, CommitCas,
                 CommitWriteFail, ClearDone, DeleteDone, Put, PutUnlocked, dbVars
  <2>2. QED
    BY <1>1, <2>1
<1>12. QED
  BY <1>2, <1>3, <1>4, <1>5, <1>6, <1>7, <1>8, <1>9, <1>10, <1>11 DEF Next, Call, Step

\* A commit writes once: nothing of a transaction is visible before its write.
LEMMA WriteImplAdds ==
  ASSUME TypeOK, NEW w, NEW t, WriteImpl(w, t)
  PROVE  /\ versions \subseteq versions'
         /\ \A v \in versions' \ versions :
              v.key \in w /\ v.txn = t /\ v.seq = seq + 1 /\ seq' = seq + 1
  BY DEF WriteImpl, dbVars

\* No step lets a transaction that has not committed own a committed version.
LEMMA CommitStep == TypeOK /\ TypeOK' /\ CallInv /\ CommitInv /\ [Next]_vars => CommitInv'
<1> SUFFICES ASSUME TypeOK, TypeOK', CallInv, CommitInv, [Next]_vars
             PROVE  CommitInv'
  OBVIOUS
<1>1. ASSUME UNCHANGED dbVars, \A s \in Txn : WrittenOnce(s)' PROVE CommitInv'
  BY <1>1 DEF CommitInv, dbVars
<1>2. ASSUME NEW s \in Txn, UNCHANGED versions,
             pc'[s] \in {"write", "clear_ok"} => pc'[s] = pc[s],
             state'[s] = state[s]
      PROVE  WrittenOnce(s)'
  <2>1. WrittenOnce(s)
    BY DEF CommitInv
  <2>2. QED
    BY <1>2, <2>1 DEF WrittenOnce, WritesOf
<1>3. ASSUME UNCHANGED dbVars, UNCHANGED state,
             \A s \in Txn : pc'[s] \in {"write", "clear_ok"} => pc'[s] = pc[s]
      PROVE  CommitInv'
  BY <1>1, <1>2, <1>3 DEF dbVars
<1>4. ASSUME NEW t \in Txn, Acquire(t) PROVE CommitInv'
  <2>1. Granted(t) /\ rkey[t] \in Key
    BY <1>4 DEF Acquire, Waiting, CallInv, CallOk, TypeOK
  <2>2. \A s \in Txn : pc'[s] \in {"write", "clear_ok"} => pc'[s] = pc[s]
    BY <2>1, GrantedFrame, GrantedCases
  <2>3. QED
    BY <1>3, <1>4, <2>2 DEF Acquire
<1>5. ASSUME NEW t \in Txn, Steal(t) PROVE CommitInv'
  <2>1. Granted(t) /\ rkey[t] \in Key
    BY <1>5 DEF Steal, Waiting, CallInv, CallOk, TypeOK
  <2>2. \A s \in Txn : pc'[s] \in {"write", "clear_ok"} => pc'[s] = pc[s]
    BY <2>1, GrantedFrame, GrantedCases
  <2>3. ASSUME NEW s \in Txn PROVE WrittenOnce(s)'
    <3>1. CASE s = Holder(t)
      <4>1. state[s] = "STARTED" /\ state'[s] = "LOCKS_STOLEN" /\ versions' = versions
        BY <1>5, <3>1 DEF Steal, CanSteal, TypeOK, dbVars
      <4>2. WrittenOnce(s)
        BY DEF CommitInv
      <4>3. QED
        BY <2>2, <4>1, <4>2 DEF WrittenOnce, WritesOf
    <3>2. CASE s # Holder(t)
      BY <1>2, <1>5, <2>2, <3>2 DEF Steal, TypeOK, dbVars
    <3>3. QED
      BY <3>1, <3>2
  <2>4. QED
    BY <1>1, <1>5, <2>3 DEF Steal
<1>6. ASSUME NEW t \in Txn, CommitCas(t) PROVE CommitInv'
  <2>1. ASSUME NEW s \in Txn PROVE WrittenOnce(s)'
    <3>1. CASE s = t /\ CanCommit(t)
      <4>1. state[t] = "STARTED" /\ state'[t] = "AWAITING_COMMIT" /\ versions' = versions
        BY <1>6, <3>1 DEF CommitCas, CanCommit, TypeOK, dbVars
      <4>2. WrittenOnce(s)
        BY DEF CommitInv
      <4>3. QED
        BY <3>1, <4>1, <4>2 DEF WrittenOnce, WritesOf
    <3>2. CASE s # t \/ ~CanCommit(t)
      BY <1>2, <1>6, <3>2 DEF CommitCas, TypeOK, dbVars, Return
    <3>3. QED
      BY <3>1, <3>2
  <2>2. QED
    BY <1>1, <1>6, <2>1 DEF CommitCas
<1>7. ASSUME NEW t \in Txn \cup {NoTxn}, NEW w, WriteImpl(w, t),
             \A s \in Txn : s # t => pc'[s] = pc[s] /\ state'[s] = state[s],
             t \in Txn => /\ pc'[t] # "write"
                          /\ pc'[t] = "clear_ok" => state'[t] = "AWAITING_COMMIT"
                          /\ state'[t] \notin {"NONE", "STARTED", "LOCKS_STOLEN"}
      PROVE  CommitInv'
  <2>1. \A v \in versions' : v.seq <= seq'
    <3>1. seq \in Nat /\ seq <= seq'
      BY <1>7, SeqGrows, MaxSeqAssumption DEF TypeOK
    <3>2. \A v \in versions : v.seq <= seq /\ v.seq \in Nat
      BY DEF CommitInv, TypeOK, Version
    <3>3. \A v \in versions' \ versions : v.seq = seq'
      BY <1>7, WriteImplAdds
    <3>4. seq' \in Nat
      BY MaxSeqAssumption DEF TypeOK
    <3>5. QED
      BY <3>1, <3>2, <3>3, <3>4
  <2>2. ASSUME NEW s \in Txn PROVE WrittenOnce(s)'
    <3>1. CASE s = t
      BY <1>7, <3>1 DEF WrittenOnce
    <3>2. CASE s # t
      <4>1. WritesOf(s)' = WritesOf(s)
        BY <1>7, <3>2, WriteImplAdds DEF WritesOf
      <4>2. WrittenOnce(s)
        BY DEF CommitInv
      <4>3. QED
        BY <1>7, <3>2, <4>1, <4>2 DEF WrittenOnce
    <3>3. QED
      BY <3>1, <3>2
  <2>3. QED
    BY <2>1, <2>2 DEF CommitInv
<1>8. ASSUME NEW t \in Txn, CommitWrite(t) PROVE CommitInv'
  <2>1. state[t] = "AWAITING_COMMIT"
    BY <1>8 DEF CommitWrite, CommitInv, WrittenOnce
  <2>2. /\ pc'[t] \in {"delete", "clear_ok"} /\ state'[t] \in {"COMMITTED", "AWAITING_COMMIT"}
        /\ pc'[t] = "clear_ok" => state'[t] = "AWAITING_COMMIT"
    BY <1>8, <2>1 DEF CommitWrite, TypeOK
  <2>3. \A s \in Txn : s # t => pc'[s] = pc[s] /\ state'[s] = state[s]
    BY <1>8 DEF CommitWrite, TypeOK
  <2>4. WriteImpl(batch[t], t)
    BY <1>8 DEF CommitWrite
  <2>5. QED
    BY <1>7, <2>2, <2>3, <2>4
<1>9. ASSUME NEW w \in UnlockedBatches, DbWriteUnlocked(w) PROVE CommitInv'
  BY <1>7, <1>9, NoTxnAssumption DEF DbWriteUnlocked, txnVars
<1>10. ASSUME NEW t \in Txn, ClearDone(t) \/ DeleteDone(t) PROVE CommitInv'
  <2>1. UNCHANGED dbVars
    BY <1>10 DEF ClearDone, DeleteDone
  <2>2. ASSUME NEW s \in Txn PROVE WrittenOnce(s)'
    <3>1. WrittenOnce(s)
      BY DEF CommitInv
    <3>2. CASE s = t
      <4>1. pc'[t] \in {"idle", "delete"} /\ state'[t] \in {state[t], "COMMITTED", "DELETED"}
        BY <1>10 DEF ClearDone, DeleteDone, TypeOK, Return
      <4>2. QED
        BY <2>1, <3>1, <3>2, <4>1 DEF WrittenOnce, WritesOf, dbVars
    <3>3. CASE s # t
      <4>1. pc'[s] = pc[s] /\ state'[s] = state[s]
        BY <1>10, <3>3 DEF ClearDone, DeleteDone, TypeOK
      <4>2. QED
        BY <1>2, <2>1, <4>1 DEF dbVars
    <3>4. QED
      BY <3>2, <3>3
  <2>3. QED
    BY <1>1, <2>1, <2>2
<1>11. ASSUME NEW t \in Txn,
              (\E o \in TxnOptions : Begin(t, o)) \/ (\E k \in Key : DbPut(t, k))
                \/ \E w \in Batches : DbWrite(t, w)
       PROVE  CommitInv'
  <2>1. UNCHANGED dbVars /\ state[t] = "NONE" /\ state' = [state EXCEPT ![t] = "STARTED"]
    BY <1>11 DEF Begin, DbPut, DbWrite
  <2>2. \A s \in Txn : pc'[s] \in {"write", "clear_ok"} => pc'[s] = pc[s]
    BY <1>11 DEF Begin, DbPut, DbWrite, TypeOK
  <2>3. ASSUME NEW s \in Txn PROVE WrittenOnce(s)'
    <3>1. WrittenOnce(s)
      BY DEF CommitInv
    <3>2. QED
      BY <2>1, <2>2, <3>1 DEF WrittenOnce, WritesOf, dbVars, TypeOK
  <2>4. QED
    BY <1>1, <2>1, <2>3
<1>12. ASSUME NEW t \in Txn,
              \/ Expire(t) \/ Commit(t) \/ Rollback(t) \/ Drop(t) \/ LockFail(t) \/ Validated(t)
              \/ Invalid(t) \/ Undo(t) \/ CommitWriteFail(t)
              \/ \E k \in Key : Put(t, k) \/ PutUnlocked(t, k) \/ UnLock(t, k)
       PROVE  CommitInv'
  <2>1. UNCHANGED <<dbVars, state>>
    BY <1>12 DEF Expire, Commit, Rollback, Drop, LockFail, Validated, Invalid, Undo,
                 CommitWriteFail, Put, PutUnlocked, UnLock
  <2>2. \A s \in Txn : pc'[s] \in {"write", "clear_ok"} => pc'[s] = pc[s]
    BY <1>12 DEF Expire, Commit, Rollback, Drop, LockFail, Validated, Invalid, Undo,
                 CommitWriteFail, Put, PutUnlocked, UnLock, TypeOK, Return
  <2>3. QED
    BY <1>3, <2>1, <2>2
<1>13. CASE UNCHANGED vars
  BY <1>3, <1>13 DEF vars, txnVars
<1>14. QED
  BY <1>4, <1>5, <1>6, <1>8, <1>9, <1>10, <1>11, <1>12, <1>13 DEF Next, Call, Step

\* A commit under concurrency control holds the lock of every key it writes.
LEMMA CommitHoldsLocks ==
  ASSUME TypeOK, LockInv, BatchInv, CommitInv, NEW t \in Isolated, CommitWrite(t)
  PROVE  /\ state[t] = "AWAITING_COMMIT" /\ WritesOf(t) = {}
         /\ \A k \in batch[t] : k \in Key /\ tracked[t][k] # NotTracked /\ locks[k] = t
<1>1. t \in Txn /\ pc[t] = "write" /\ ~opts[t].skip_concurrency_control
  BY DEF CommitWrite, Isolated
<1>2. state[t] = "AWAITING_COMMIT" /\ WritesOf(t) = {}
  BY <1>1 DEF CommitInv, WrittenOnce
<1>3. \A k \in batch[t] : k \in Key /\ tracked[t][k] # NotTracked
  BY <1>1 DEF BatchInv, BatchTracked, TypeOK
<1>4. QED
  BY <1>1, <1>2, <1>3 DEF LockInv, LocksHeld

\* Nobody who took part in concurrency control stops doing so after writing,
\* and nobody starts to.
LEMMA IsolatedFrame ==
  ASSUME TypeOK, CallInv, [Next]_vars
  PROVE  Isolated' \subseteq Isolated
<1>1. ASSUME NEW t \in Txn, NEW o \in TxnOptions, Begin(t, o) PROVE Isolated' \subseteq Isolated
  BY <1>1 DEF Begin, Isolated, TypeOK, CallInv, CallOk, InternalOptions
<1>2. ASSUME NEW t \in Txn, (\E k \in Key : DbPut(t, k)) \/ \E w \in Batches : DbWrite(t, w)
      PROVE  Isolated' \subseteq Isolated
  BY <1>2 DEF DbPut, DbWrite, Isolated, TypeOK, CallInv, CallOk
<1>3. ASSUME opts' = opts PROVE Isolated' \subseteq Isolated
  BY <1>3 DEF Isolated
<1>4. ASSUME NEW t \in Txn,
             \/ Expire(t) \/ Commit(t) \/ Rollback(t) \/ Drop(t) \/ Step(t)
             \/ \E k \in Key : Put(t, k) \/ PutUnlocked(t, k)
      PROVE  opts' = opts
  BY <1>4 DEF Expire, Commit, Rollback, Drop, Put, PutUnlocked, Step, Acquire, Steal, LockFail,
              Validated, Invalid, Undo, CommitCas, CommitWrite, CommitWriteFail, UnLock,
              ClearDone, DeleteDone
<1>5. ASSUME NEW w \in UnlockedBatches, DbWriteUnlocked(w) PROVE opts' = opts
  BY <1>5 DEF DbWriteUnlocked, txnVars
<1>6. CASE UNCHANGED vars
  BY <1>3, <1>6 DEF vars, txnVars
<1>7. QED
  BY <1>1, <1>2, <1>3, <1>4, <1>5, <1>6 DEF Next, Call

\* No step makes a tracked sequence number a lie: whoever else writes the key
\* under concurrency control would hold its lock.
LEMMA TrackedStep ==
  TypeOK /\ TypeOK' /\ CallInv /\ LockInv /\ BatchInv /\ CommitInv /\ TrackedUnmodified /\ [Next]_vars
    => TrackedUnmodified'
<1> SUFFICES ASSUME TypeOK, TypeOK', CallInv, LockInv, BatchInv, CommitInv, TrackedUnmodified,
                    [Next]_vars, NEW s \in Txn, NEW j \in Key,
                    tracked'[s][j] # NotTracked, state'[s] # "LOCKS_STOLEN"
             PROVE  UnmodifiedSince(s, j, tracked[s][j])'
  BY DEF TrackedUnmodified
<1> DEFINE Goal == UnmodifiedSince(s, j, tracked[s][j])'
<1>1. Isolated' \subseteq Isolated
  BY IsolatedFrame
<1>2. ASSUME versions' = versions, tracked'[s][j] = tracked[s][j], state[s] # "LOCKS_STOLEN"
      PROVE  Goal
  BY <1>1, <1>2 DEF TrackedUnmodified, UnmodifiedSince
<1>3. ASSUME NEW t \in Txn, Acquire(t) \/ Steal(t) PROVE Goal
  <2>1. Granted(t) /\ rkey[t] \in Key /\ versions' = versions
    BY <1>3 DEF Acquire, Steal, Waiting, CallInv, CallOk, dbVars, TypeOK
  <2>2. state[s] # "LOCKS_STOLEN"
    BY <1>3 DEF Acquire, Steal, TypeOK
  <2>3. CASE tracked'[s][j] = tracked[s][j]
    BY <1>2, <2>1, <2>2, <2>3
  <2>4. CASE tracked'[s][j] # tracked[s][j]
    <3>1. tracked'[s][j] = kMaxSequenceNumber
      <4>1. s = t /\ tracked'[t] = [tracked[t] EXCEPT ![rkey[t]] = kMaxSequenceNumber]
        BY <2>1, <2>4, GrantedFrame, GrantedCases
      <4>2. QED
        BY <2>4, <4>1 DEF TypeOK
    <3>2. \A v \in versions : ~(v.seq > kMaxSequenceNumber)
      BY MaxSeqAssumption DEF TypeOK, Version, kMaxSequenceNumber
    <3>3. QED
      BY <2>1, <3>1, <3>2 DEF UnmodifiedSince
  <2>5. QED
    BY <2>3, <2>4
<1>4. ASSUME NEW t \in Txn, Validated(t) PROVE Goal
  <2>1. rkey[t] \in Key /\ versions' = versions /\ state' = state
    BY <1>4 DEF Validated, CallInv, CallOk, dbVars, TypeOK
  <2>2. CASE tracked'[s][j] = tracked[s][j]
    BY <1>2, <2>1, <2>2
  <2>3. CASE tracked'[s][j] # tracked[s][j]
    <3>1. s = t /\ j = rkey[t]
      BY <1>4, <2>1, <2>3, ValidatedTracks
    <3>2. tracked'[s][j] = TrackSeq(t, j)
      BY <1>4, <2>1, <2>3, <3>1, ValidatedTracks
    <3>3. /\ tracked[t][j] \in Int /\ snapshot[t] \in Int /\ seq \in Int
          /\ \A v \in versions : v.seq \in Int /\ v.seq <= seq
      BY MaxSeqAssumption DEF TypeOK, Version, CommitInv, NotTracked, NoSnapshot, kMaxSequenceNumber
    <3>4. CASE DoValidate(t) /\ TrackedAt(t, j) <= snapshot[t]
      <4>1. TrackSeq(t, j) = TrackedAt(t, j)
        BY <3>4 DEF TrackSeq
      <4>2. tracked[t][j] = NotTracked
        BY <2>3, <3>1, <3>2, <4>1 DEF TrackedAt
      <4>3. snapshot[t] <= MaxSeq
        BY MaxSeqAssumption DEF TypeOK, NoSnapshot
      <4>4. TrackedAt(t, j) = MaxSeq + 1
        BY <4>2 DEF TrackedAt, kMaxSequenceNumber
      <4>5. QED
        BY <3>3, <3>4, <4>3, <4>4, MaxSeqAssumption
    <3>5. CASE DoValidate(t) /\ ~(TrackedAt(t, j) <= snapshot[t])
      <4>1. ~ModifiedAfter(j, snapshot[t]) /\ TrackSeq(t, j) = snapshot[t]
        BY <1>4, <3>1, <3>5 DEF Validated, ValidateSnapshot, TrackSeq
      <4>2. QED
        BY <2>1, <3>2, <4>1 DEF ModifiedAfter, UnmodifiedSince
    <3>6. CASE ~DoValidate(t) /\ tracked[t][j] # NotTracked
      <4>1. TrackSeq(t, j) = seq \/ TrackSeq(t, j) = tracked[t][j]
        BY <3>6 DEF TrackSeq, TrackedAt
      <4>2. TrackSeq(t, j) = seq
        BY <2>3, <3>1, <3>2, <4>1
      <4>3. QED
        BY <2>1, <3>2, <3>3, <4>2 DEF UnmodifiedSince
    <3>7. CASE ~DoValidate(t) /\ tracked[t][j] = NotTracked
      <4>1. TrackSeq(t, j) = seq
        BY <3>7 DEF TrackSeq, TrackedAt
      <4>2. QED
        BY <2>1, <3>2, <3>3, <4>1 DEF UnmodifiedSince
    <3>8. QED
      BY <3>4, <3>5, <3>6, <3>7
  <2>4. QED
    BY <2>2, <2>3
<1>5. ASSUME NEW t \in Txn, CommitWrite(t) PROVE Goal
  <2>1. WriteImpl(batch[t], t) /\ tracked' = tracked /\ opts' = opts
    BY <1>5 DEF CommitWrite
  <2>2. state[s] # "LOCKS_STOLEN"
    BY <1>5 DEF CommitWrite, CommitInv, WrittenOnce, TypeOK
  <2>3. UnmodifiedSince(s, j, tracked[s][j])
    BY <2>1, <2>2 DEF TrackedUnmodified
  <2>4. ASSUME NEW v \in versions' \ versions, v.key = j PROVE v.txn = s \/ v.txn \notin Isolated
    <3>1. v.key \in batch[t] /\ v.txn = t
      BY <2>1, WriteImplAdds
    <3>2. CASE t \notin Isolated
      BY <3>1, <3>2
    <3>3. CASE t \in Isolated
      <4>1. locks[j] = t
        BY <1>5, <2>4, <3>1, <3>3, CommitHoldsLocks
      <4>2. locks[j] = s
        BY <2>1, <2>2 DEF LockInv, LocksHeld
      <4>3. QED
        BY <3>1, <4>1, <4>2
    <3>4. QED
      BY <3>2, <3>3
  <2>5. QED
    BY <1>1, <2>1, <2>3, <2>4 DEF UnmodifiedSince
<1>6. ASSUME NEW w \in UnlockedBatches, DbWriteUnlocked(w) PROVE Goal
  <2>1. WriteImpl(w, NoTxn) /\ tracked' = tracked /\ state' = state
    BY <1>6 DEF DbWriteUnlocked, txnVars
  <2>2. UnmodifiedSince(s, j, tracked[s][j])
    BY <2>1 DEF TrackedUnmodified
  <2>3. \A v \in versions' \ versions : v.txn \notin Isolated
    BY <2>1, WriteImplAdds, NoTxnAssumption DEF Isolated
  <2>4. QED
    BY <1>1, <2>1, <2>2, <2>3 DEF UnmodifiedSince
<1>7. ASSUME NEW t \in Txn, NEW k \in Key, UnLock(t, k) PROVE Goal
  <2>1. tracked'[s][j] = tracked[s][j] /\ versions' = versions /\ state' = state
    BY <1>7 DEF UnLock, TypeOK, dbVars
  <2>2. QED
    BY <1>2, <2>1
<1>8. ASSUME NEW t \in Txn, ClearDone(t) \/ DeleteDone(t) PROVE Goal
  <2>1. tracked' = tracked /\ versions' = versions /\ \A k \in Key : tracked[t][k] = NotTracked
    BY <1>8 DEF ClearDone, DeleteDone, TrackedKeys, dbVars
  <2>2. s # t
    BY <2>1
  <2>3. state'[s] = state[s]
    BY <1>8, <2>2 DEF ClearDone, DeleteDone, TypeOK
  <2>4. QED
    BY <1>2, <2>1, <2>3
<1>9. ASSUME NEW t \in Txn,
             (\E o \in TxnOptions : Begin(t, o)) \/ (\E k \in Key : DbPut(t, k))
               \/ (\E w \in Batches : DbWrite(t, w)) \/ CommitCas(t)
      PROVE  Goal
  <2>1. tracked' = tracked /\ versions' = versions
    BY <1>9 DEF Begin, DbPut, DbWrite, CommitCas, dbVars
  <2>2. state[s] # "LOCKS_STOLEN"
    BY <1>9 DEF Begin, DbPut, DbWrite, CommitCas, CanCommit, TypeOK
  <2>3. QED
    BY <1>2, <2>1, <2>2
<1>10. ASSUME NEW t \in Txn,
              \/ Expire(t) \/ Commit(t) \/ Rollback(t) \/ Drop(t) \/ LockFail(t)
              \/ Invalid(t) \/ Undo(t) \/ CommitWriteFail(t)
              \/ \E k \in Key : Put(t, k) \/ PutUnlocked(t, k)
       PROVE  Goal
  <2>1. tracked' = tracked /\ versions' = versions /\ state' = state
    BY <1>10 DEF Expire, Commit, Rollback, Drop, LockFail, Invalid, Undo,
                 CommitWriteFail, Put, PutUnlocked, dbVars
  <2>2. QED
    BY <1>2, <2>1
<1>11. CASE UNCHANGED vars
  BY <1>2, <1>11 DEF vars, txnVars, dbVars
<1>12. QED
  BY <1>3, <1>4, <1>5, <1>6, <1>7, <1>8, <1>9, <1>10, <1>11 DEF Next, Call, Step

==============================================================================
