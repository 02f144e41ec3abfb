-------------------------- MODULE TransactionDbProofs --------------------------
(***************************************************************************)
(* The theorems about TransactionDb, for every set of keys, of transactions, *)
(* of options and of batches, and every MaxSeq.                            *)
(***************************************************************************)
EXTENDS TransactionDbCommits

\* Every step of TransactionDb is a step of the store its callers are promised, or none.
LEMMA StoreStep ==
  ASSUME TypeOK, CallInv, LockInv, BatchInv, SnapshotInv, CommitInv, TrackedUnmodified, [Next]_vars
  PROVE  [Store!Next]_(Store!vars)
<1>1. ASSUME UNCHANGED <<seq, versions, snapshot, opts>> PROVE UNCHANGED Store!vars
  BY <1>1 DEF Store!vars, Isolated
<1>2. ASSUME NEW t \in Txn, NEW o \in TxnOptions, Begin(t, o) PROVE Store!Next
  <2>1. WritesOf(t) = {}
    BY <1>2 DEF Begin, CommitInv, WrittenOnce
  <2>2. snapshot' \in {snapshot, [snapshot EXCEPT ![t] = seq]}
    <3>1. snapshot[t] = NoSnapshot
      BY <1>2 DEF Begin, CallInv, CallOk
    <3>2. CASE o.set_snapshot
      BY <1>2, <3>2 DEF Begin
    <3>3. CASE ~o.set_snapshot
      BY <1>2, <3>1, <3>3 DEF Begin, TypeOK
    <3>4. QED
      BY <3>2, <3>3
  <2>3. Isolated' \in {Isolated, Isolated \ {t}}
    <3>1. opts' = [opts EXCEPT ![t] = o] /\ t \in Isolated
      BY <1>2 DEF Begin, CallInv, CallOk, InternalOptions, Isolated
    <3>2. CASE o.skip_concurrency_control
      BY <3>1, <3>2 DEF Isolated, TypeOK
    <3>3. CASE ~o.skip_concurrency_control
      BY <3>1, <3>3 DEF Isolated, TypeOK
    <3>4. QED
      BY <3>2, <3>3
  <2>4. seq' = seq /\ versions' = versions
    BY <1>2 DEF Begin, dbVars
  <2>5. Store!Begin(t)
    BY <2>1, <2>2, <2>3, <2>4 DEF Store!Begin, Store!WritesOf, WritesOf
  <2>6. QED
    BY <2>5 DEF Store!Next
<1>3. ASSUME NEW t \in Txn, (\E k \in Key : DbPut(t, k)) \/ \E w \in Batches : DbWrite(t, w)
      PROVE  UNCHANGED Store!vars
  <2>1. seq' = seq /\ versions' = versions /\ snapshot' = snapshot
    BY <1>3 DEF DbPut, DbWrite, dbVars
  <2>2. opts' = opts
    BY <1>3 DEF DbPut, DbWrite, CallInv, CallOk, TypeOK
  <2>3. QED
    BY <1>1, <2>1, <2>2
<1>4. ASSUME NEW t \in Txn, CommitWrite(t) PROVE [Store!Next]_(Store!vars)
  <2>1. WriteImpl(batch[t], t) /\ snapshot' = snapshot /\ opts' = opts
    BY <1>4 DEF CommitWrite
  <2>2. CASE batch[t] = {}
    BY <1>1, <2>1, <2>2 DEF WriteImpl, dbVars
  <2>3. CASE batch[t] # {}
    <3>1. Store!Add(t, batch[t])
      BY <2>1, <2>3 DEF WriteImpl, Store!Add, Isolated
    <3>2. Store!WritesOf(t) = {}
      BY <1>4 DEF CommitWrite, CommitInv, WrittenOnce, WritesOf, Store!WritesOf
    <3>3. ASSUME t \in Isolated, NEW k \in batch[t], snapshot[t] # NoSnapshot,
                 NEW v \in versions, v.key = k, v.txn \in Isolated
          PROVE  v.seq <= snapshot[t]
      <4>1. /\ state[t] = "AWAITING_COMMIT" /\ k \in Key /\ tracked[t][k] # NotTracked
            /\ v.txn # t
        BY <1>4, <3>3, CommitHoldsLocks DEF WritesOf
      <4>2. DoValidate(t)
        BY <3>3 DEF DoValidate, CallInv, CallOk
      <4>3. tracked[t][k] <= snapshot[t]
        BY <4>1, <4>2 DEF SnapshotInv, SnapshotOk
      <4>4. ~(v.seq > tracked[t][k])
        BY <3>3, <4>1 DEF TrackedUnmodified, UnmodifiedSince
      <4>5. v.seq \in Int /\ tracked[t][k] \in Int /\ snapshot[t] \in Int
        BY <4>1, MaxSeqAssumption DEF TypeOK, Version, NotTracked, NoSnapshot, kMaxSequenceNumber
      <4>6. QED
        BY <4>3, <4>4, <4>5
    <3>4. t \in Isolated => \A k \in batch[t] : Store!Unchanged(t, k)
      BY <3>3 DEF Store!Unchanged, Store!NoSnapshot, NoSnapshot
    <3>5. Store!Commit(t, batch[t])
      BY <3>1, <3>2, <3>4 DEF Store!Commit
    <3>6. batch[t] \in SUBSET Key
      BY DEF TypeOK
    <3>7. QED
      BY <3>5, <3>6 DEF Store!Next
  <2>4. QED
    BY <2>2, <2>3
<1>5. ASSUME NEW w \in UnlockedBatches, DbWriteUnlocked(w) PROVE Store!Next
  <2>1. WriteImpl(w, NoTxn) /\ w # {} /\ snapshot' = snapshot /\ opts' = opts
    BY <1>5 DEF DbWriteUnlocked, txnVars
  <2>2. Store!Add(NoTxn, w)
    BY <2>1 DEF WriteImpl, Store!Add, Isolated
  <2>3. w \in SUBSET Key
    BY BatchesAssumption
  <2>4. QED
    BY <2>2, <2>3 DEF Store!Next
<1>6. ASSUME NEW t \in Txn,
             \/ Expire(t) \/ Commit(t) \/ Rollback(t) \/ Drop(t) \/ Acquire(t) \/ Steal(t)
             \/ LockFail(t) \/ Validated(t) \/ Invalid(t) \/ Undo(t) \/ CommitCas(t)
             \/ CommitWriteFail(t) \/ ClearDone(t) \/ DeleteDone(t)
             \/ \E k \in Key : Put(t, k) \/ PutUnlocked(t, k) \/ UnLock(t, k)
      PROVE  UNCHANGED Store!vars
  <2>1. UNCHANGED <<seq, versions, snapshot, opts>>
    BY <1>6 DEF Expire, Commit, Rollback, Drop, Acquire, Steal, LockFail, Validated, Invalid, Undo,
                CommitCas, CommitWriteFail, ClearDone, DeleteDone, Put, PutUnlocked, UnLock, dbVars
  <2>2. QED
    BY <1>1, <2>1
<1>7. CASE UNCHANGED vars
  BY <1>1, <1>7 DEF vars, txnVars, dbVars
<1>8. QED
  BY <1>2, <1>3, <1>4, <1>5, <1>6, <1>7 DEF Next, Call, Step

\* Every step of the store keeps its two promises.
LEMMA StoreSafetyStep ==
  ASSUME TypeOK, TypeOK', CommitInv, NoLostUpdate, AtomicCommit, [Store!Next]_(Store!vars)
  PROVE  NoLostUpdate' /\ AtomicCommit'
<1> USE DEF NoLostUpdate, AtomicCommit, Store!NoLostUpdate, Store!AtomicCommit, Store!NoSnapshot
<1>0. /\ seq \in Int /\ \A v \in versions : v.seq \in Int /\ v.seq <= seq
      /\ \A t \in Txn : snapshot[t] \in Int
  BY MaxSeqAssumption DEF TypeOK, Version, CommitInv, NoSnapshot
<1>1. CASE UNCHANGED Store!vars
  BY <1>1 DEF Store!vars
<1>2. ASSUME NEW t \in Txn, Store!Begin(t) PROVE NoLostUpdate' /\ AtomicCommit'
  <2>1. versions' = versions /\ Isolated' \subseteq Isolated /\ \A v \in versions : v.txn # t
    BY <1>2 DEF Store!Begin, Store!WritesOf
  <2>2. \A s \in Txn : s # t => snapshot'[s] = snapshot[s]
    BY <1>2 DEF Store!Begin, TypeOK
  <2>3. NoLostUpdate'
    BY <2>1, <2>2 DEF Isolated
  <2>4. QED
    BY <2>1, <2>3
<1>3. ASSUME NEW t, NEW w, Store!Add(t, w),
             \A v \in versions : v.txn = t => t = NoTxn,
             \A v \in versions, k \in w :
               t \in Isolated /\ snapshot[t] # NoSnapshot /\ v.key = k /\ v.txn \in Isolated
                 => v.seq <= snapshot[t]
      PROVE  NoLostUpdate' /\ AtomicCommit'
  <2>1. Isolated' = Isolated /\ snapshot' = snapshot
    BY <1>3 DEF Store!Add
  <2>2. \A v \in versions' : v \in versions \/ (v.key \in w /\ v.txn = t /\ v.seq = seq + 1)
    BY <1>3 DEF Store!Add
  <2>3. AtomicCommit'
    BY <1>3, <2>2
  <2>4. ASSUME NEW v \in versions', NEW x \in versions', v.key = x.key, v.txn # x.txn,
               v.txn \in Isolated, x.txn \in Isolated,
               snapshot[v.txn] # NoSnapshot, x.seq > snapshot[v.txn]
        PROVE  x.seq > v.seq
    <3>1. CASE v \in versions /\ x \in versions
      BY <2>4, <3>1 DEF NoSnapshot
    <3>2. CASE v \in versions /\ x \notin versions
      BY <1>0, <2>2, <3>2
    <3>3. CASE v \notin versions /\ x \in versions
      <4>1. v.key \in w /\ v.txn = t
        BY <2>2, <3>3
      <4>2. x.seq <= snapshot[t]
        BY <1>3, <2>4, <3>3, <4>1
      <4>3. QED
        BY <1>0, <2>4, <3>3, <4>1, <4>2 DEF Isolated
    <3>4. CASE v \notin versions /\ x \notin versions
      BY <2>2, <2>4, <3>4
    <3>5. QED
      BY <3>1, <3>2, <3>3, <3>4
  <2>5. NoLostUpdate'
    BY <2>1, <2>4 DEF NoSnapshot
  <2>6. QED
    BY <2>3, <2>5
<1>4. ASSUME NEW t \in Txn, NEW w \in SUBSET Key, Store!Commit(t, w)
      PROVE  NoLostUpdate' /\ AtomicCommit'
  <2>1. Store!Add(t, w) /\ \A v \in versions : v.txn # t
    BY <1>4 DEF Store!Commit, Store!WritesOf
  <2>2. \A v \in versions, k \in w :
          t \in Isolated /\ snapshot[t] # NoSnapshot /\ v.key = k /\ v.txn \in Isolated
            => v.seq <= snapshot[t]
    BY <1>4 DEF Store!Commit, Store!Unchanged, NoSnapshot
  <2>3. QED
    BY <1>3, <2>1, <2>2
<1>5. ASSUME NEW w \in SUBSET Key, Store!Add(NoTxn, w) PROVE NoLostUpdate' /\ AtomicCommit'
  BY <1>3, <1>5, NoTxnAssumption DEF Isolated
<1>6. QED
  BY <1>1, <1>2, <1>4, <1>5 DEF Store!Next

\* A database nobody has used yet satisfies every part of the inductive invariant.
LEMMA IndInit == Init => IndInv
<1> SUFFICES ASSUME Init PROVE IndInv
  OBVIOUS
<1>1. TypeOK
  BY TypeInit
<1>2. CallInv /\ NoLeakedLocks /\ LockInv /\ ExpiryInv
  BY DEF Init, CallInv, CallOk, NoLeakedLocks, Remembered, LockInv, LocksHeld, ExpiryInv, Live,
         TrackedKeys
<1>3. BatchInv /\ SnapshotInv /\ CommitInv
  BY DEF Init, BatchInv, BatchTracked, SnapshotInv, SnapshotOk, DoValidate, CommitInv, WrittenOnce,
         WritesOf, NoSnapshot, NotTracked
<1>4. TrackedUnmodified /\ NoLostUpdate /\ AtomicCommit
  BY DEF Init, TrackedUnmodified, UnmodifiedSince, NoLostUpdate, AtomicCommit,
         Store!NoLostUpdate, Store!AtomicCommit
<1>5. QED
  BY <1>1, <1>2, <1>3, <1>4 DEF IndInv

\* Every step keeps the inductive invariant, part by part.
LEMMA IndStep == IndInv /\ [Next]_vars => IndInv'
<1> SUFFICES ASSUME IndInv, [Next]_vars PROVE IndInv'
  OBVIOUS
<1>1. TypeOK'
  BY TypeStep DEF IndInv
<1>2. CallInv' /\ NoLeakedLocks' /\ LockInv' /\ ExpiryInv'
  BY <1>1, CallStep, HeldStep, LockStep, ExpiryStep DEF IndInv
<1>3. BatchInv' /\ SnapshotInv' /\ CommitInv'
  BY <1>1, BatchStep, SnapshotStep, CommitStep DEF IndInv
<1>4. TrackedUnmodified'
  BY <1>1, TrackedStep DEF IndInv
<1>5. [Store!Next]_(Store!vars)
  BY StoreStep DEF IndInv
<1>6. NoLostUpdate' /\ AtomicCommit'
  BY <1>1, <1>5, StoreSafetyStep DEF IndInv
<1>7. QED
  BY <1>1, <1>2, <1>3, <1>4, <1>6 DEF IndInv

\* The inductive invariant holds in every reachable state of every instance.
THEOREM Invariance == Spec => []IndInv
<1>1. Init => IndInv
  BY IndInit
<1>2. IndInv /\ [Next]_vars => IndInv'
  BY IndStep
<1>3. QED
  BY <1>1, <1>2, PTL DEF Spec

\* Every variable keeps its type, whatever the calls and their interleaving.
THEOREM TypeCorrect == Spec => []TypeOK
<1>1. IndInv => TypeOK
  BY DEF IndInv
<1>2. QED
  BY <1>1, Invariance, PTL

\* No lost update (PessimisticTransaction::TryLock: validation after locking).
THEOREM NoUpdateIsLost == Spec => []NoLostUpdate
<1>1. IndInv => NoLostUpdate
  BY DEF IndInv
<1>2. QED
  BY <1>1, Invariance, PTL

\* One transaction object, one commit (PessimisticTransaction::Commit).
THEOREM CommitsAreAtomic == Spec => []AtomicCommit
<1>1. IndInv => AtomicCommit
  BY DEF IndInv
<1>2. QED
  BY <1>1, Invariance, PTL

\* No lock outlives its owner or is forgotten by it.
THEOREM LocksAreNotLeaked == Spec => []NoLeakedLocks
<1>1. IndInv => NoLeakedLocks
  BY DEF IndInv
<1>2. QED
  BY <1>1, Invariance, PTL

\* A lock is lost to others by expiry only, as UnLockKey asserts.
THEOREM LocksAreLostByExpiry == Spec => []LostOnlyByExpiry
<1>1. IndInv => LostOnlyByExpiry
  BY DEF IndInv, LockInv, LocksHeld, ExpiryInv, LostOnlyByExpiry
<1>2. QED
  BY <1>1, Invariance, PTL

\* The tracker's sequence number means what PointLockTracker::Track says.
THEOREM TrackedSeqIsSound == Spec => []TrackedUnmodified
<1>1. IndInv => TrackedUnmodified
  BY DEF IndInv
<1>2. QED
  BY <1>1, Invariance, PTL

\* The transactional write path implements the snapshot store.
THEOREM Implementation == Spec => StoreSpec
<1>1. Init => Store!Init
  BY DEF Init, Store!Init, Isolated, InternalOptions, NoSnapshot, Store!NoSnapshot
<1>2. IndInv /\ [Next]_vars => [Store!Next]_(Store!vars)
  BY StoreStep DEF IndInv
<1>3. QED
  BY <1>1, <1>2, Invariance, PTL DEF Spec, StoreSpec, Store!Spec

\* A transaction under concurrency control writes under its locks only.
THEOREM WritesAreLocked == Spec => WritesUnderLock
<1> DEFINE Under == \A v \in versions' \ versions : v.txn \in Isolated => locks[v.key] = v.txn
<1>1. IndInv /\ [Next]_vars => [Under]_vars
  <2> SUFFICES ASSUME IndInv, [Next]_vars, NEW v \in versions', v \notin versions, v.txn \in Isolated
               PROVE  locks[v.key] = v.txn
    OBVIOUS
  <2>1. ASSUME UNCHANGED versions PROVE FALSE
    BY <2>1
  <2>2. ASSUME NEW t \in Txn, CommitWrite(t) PROVE locks[v.key] = v.txn
    <3>1. TypeOK /\ LockInv /\ BatchInv /\ CommitInv /\ WriteImpl(batch[t], t)
      BY <2>2 DEF IndInv, CommitWrite
    <3>2. v.key \in batch[t] /\ v.txn = t
      BY <3>1, WriteImplAdds
    <3>3. QED
      BY <2>2, <3>1, <3>2, CommitHoldsLocks
  <2>3. ASSUME NEW w \in UnlockedBatches, DbWriteUnlocked(w) PROVE locks[v.key] = v.txn
    <3>1. TypeOK /\ WriteImpl(w, NoTxn)
      BY <2>3 DEF IndInv, DbWriteUnlocked
    <3>2. v.txn = NoTxn
      BY <3>1, WriteImplAdds
    <3>3. QED
      BY <3>2, NoTxnAssumption DEF Isolated
  <2>4. QED
    BY <2>1, <2>2, <2>3 DEF Next, Call, Step, Begin, Expire, Put, PutUnlocked, DbPut, DbWrite, Commit,
       Rollback, Drop, Acquire, Steal, LockFail, Validated, Invalid, Undo, CommitCas, CommitWriteFail,
       UnLock, ClearDone, DeleteDone, vars, dbVars
<1>2. QED
  BY <1>1, Invariance, PTL DEF Spec, WritesUnderLock

\* Only a commit's write, or a write without concurrency control, publishes anything.
LEMMA OnlyWritesPublish ==
  ASSUME TypeOK, [Next]_vars
  PROVE  /\ \A v \in versions' \ versions :
              /\ v.seq = seq + 1
              /\ v.txn = NoTxn \/ \E t \in Txn : v.txn = t /\ CommitWrite(t)
         /\ versions \subseteq versions'
<1>1. ASSUME NEW t \in Txn, CommitWrite(t)
      PROVE  versions \subseteq versions' /\ \A v \in versions' \ versions : v.txn = t /\ v.seq = seq + 1
  BY <1>1, WriteImplAdds DEF CommitWrite
<1>2. ASSUME NEW w \in UnlockedBatches, DbWriteUnlocked(w)
      PROVE  versions \subseteq versions' /\ \A v \in versions' \ versions : v.txn = NoTxn /\ v.seq = seq + 1
  BY <1>2, WriteImplAdds DEF DbWriteUnlocked
<1>3. CASE UNCHANGED versions
  BY <1>3
<1>4. QED
  BY <1>1, <1>2, <1>3 DEF Next, Call, Step, Begin, Expire, Put, PutUnlocked, DbPut, DbWrite, Commit,
     Rollback, Drop, Acquire, Steal, LockFail, Validated, Invalid, Undo, CommitCas, CommitWriteFail,
     UnLock, ClearDone, DeleteDone, vars, dbVars

\* A transaction whose locks were stolen stays stolen until it is deleted.
LEMMA StolenStep ==
  ASSUME TypeOK, CommitInv, [Next]_vars, NEW s \in Txn, state[s] = "LOCKS_STOLEN"
  PROVE  state'[s] \in {"LOCKS_STOLEN", "DELETED"}
<1>1. ASSUME NEW t \in Txn,
             \/ \E o \in TxnOptions : Begin(t, o)
             \/ \E k \in Key : DbPut(t, k)
             \/ \E w \in Batches : DbWrite(t, w)
             \/ CommitCas(t)
      PROVE  state'[s] = state[s]
  BY <1>1 DEF Begin, DbPut, DbWrite, CommitCas, CanCommit, TypeOK
<1>2. ASSUME NEW t \in Txn, Steal(t) PROVE state'[s] = state[s]
  BY <1>2 DEF Steal, CanSteal, TypeOK
<1>3. ASSUME NEW t \in Txn, CommitWrite(t) \/ ClearDone(t)
      PROVE  state'[s] = state[s]
  <2>1. pc[t] \in {"write", "clear_ok"} => t # s
    BY DEF CommitInv, WrittenOnce
  <2>2. QED
    BY <1>3, <2>1 DEF CommitWrite, ClearDone, TypeOK
<1>4. ASSUME NEW t \in Txn, DeleteDone(t) PROVE state'[s] \in {state[s], "DELETED"}
  BY <1>4 DEF DeleteDone, TypeOK
<1>5. CASE UNCHANGED state
  BY <1>5
<1>6. QED
  BY <1>1, <1>2, <1>3, <1>4, <1>5 DEF Next, Call, Step, Expire, Put, PutUnlocked, Commit, Rollback, Drop,
     Acquire, LockFail, Validated, Invalid, Undo, CommitWriteFail, UnLock, DbWriteUnlocked, vars, txnVars

\* Stealing a transaction's locks and committing it exclude each other for good.
THEOREM StolenTransactionsStayDead == Spec => StolenNeverCommits
<1> DEFINE Dead == \A t \in Txn : state[t] = "LOCKS_STOLEN" =>
                     /\ state'[t] \in {"LOCKS_STOLEN", "DELETED"}
                     /\ \A v \in versions' \ versions : v.txn # t
<1>1. IndInv /\ [Next]_vars => [Dead]_vars
  <2> SUFFICES ASSUME IndInv, [Next]_vars, NEW t \in Txn, state[t] = "LOCKS_STOLEN"
               PROVE  /\ state'[t] \in {"LOCKS_STOLEN", "DELETED"}
                      /\ \A v \in versions' \ versions : v.txn # t
    OBVIOUS
  <2>1. TypeOK /\ CommitInv
    BY DEF IndInv
  <2>2. ~CommitWrite(t)
    BY <2>1 DEF CommitWrite, CommitInv, WrittenOnce
  <2>3. QED
    BY <2>1, <2>2, StolenStep, OnlyWritesPublish, NoTxnAssumption
<1>2. QED
  BY <1>1, Invariance, PTL DEF Spec, StolenNeverCommits
================================================================================
