--------------------------- MODULE TransactionDbLocks ---------------------------
(***************************************************************************)
(* Locks: none is forgotten, what is tracked stays locked, and what a commit *)
(* may write is tracked.                                                   *)
(***************************************************************************)
EXTENDS TransactionDbTypes

\* No lock is forgotten.
LEMMA HeldStep == TypeOK /\ TypeOK' /\ CallInv /\ NoLeakedLocks /\ [Next]_vars => NoLeakedLocks'
<1> SUFFICES ASSUME TypeOK, TypeOK', CallInv, NoLeakedLocks, [Next]_vars, NEW j \in Key
             PROVE  Remembered(j)'
  BY DEF NoLeakedLocks
<1>0. Remembered(j)
  BY DEF NoLeakedLocks
<1> USE NoKeyIsNoKey, NoTxnAssumption DEF TypeOK, Remembered, dbVars, Live, Idle, TrackedKeys
<1>1. CASE UNCHANGED vars
  BY <1>0, <1>1 DEF vars, txnVars
<1>2. ASSUME NEW t \in Txn, NEW o \in TxnOptions, Begin(t, o) PROVE Remembered(j)'
  BY <1>0, <1>2 DEF Begin
<1>3. ASSUME NEW t \in Txn, Expire(t) PROVE Remembered(j)'
  BY <1>0, <1>3 DEF Expire
<1>4. ASSUME NEW t \in Txn, NEW k \in Key, Put(t, k) PROVE Remembered(j)'
  BY <1>0, <1>4 DEF Put
<1>5. ASSUME NEW t \in Txn, NEW k \in Key, PutUnlocked(t, k) PROVE Remembered(j)'
  BY <1>0, <1>5 DEF PutUnlocked
<1>6. ASSUME NEW t \in Txn, NEW k \in Key, DbPut(t, k) PROVE Remembered(j)'
  BY <1>0, <1>6 DEF DbPut
<1>7. ASSUME NEW t \in Txn, NEW w \in Batches, DbWrite(t, w) PROVE Remembered(j)'
  BY <1>0, <1>7 DEF DbWrite
<1>8. ASSUME NEW t \in Txn, Commit(t) PROVE Remembered(j)'
  BY <1>0, <1>8 DEF Commit
<1>9. ASSUME NEW t \in Txn, Rollback(t) PROVE Remembered(j)'
  BY <1>0, <1>9 DEF Rollback
<1>10. ASSUME NEW t \in Txn, Drop(t) PROVE Remembered(j)'
  BY <1>0, <1>10 DEF Drop
<1>11. ASSUME NEW t \in Txn, Acquire(t) PROVE Remembered(j)'
  <2>1. Granted(t) /\ rkey[t] \in Key /\ Live(t) /\ locks' = [locks EXCEPT ![rkey[t]] = t]
    BY <1>11 DEF Acquire, Waiting, CallInv, CallOk
  <2>2. CASE locks'[j] = t
    <3>1. CASE j = rkey[t]
      BY <1>11, <2>1, <2>2, <3>1, GrantedCases, kMaxIsTracked DEF Acquire
    <3>2. CASE j # rkey[t]
      <4>1. locks[j] = t /\ tracked[t][j] # NotTracked
        BY <1>0, <1>11, <2>1, <2>2, <3>2 DEF Acquire, Waiting
      <4>2. tracked'[t][j] # NotTracked
        <5>1. tracked' = tracked \/ tracked'[t] = [tracked[t] EXCEPT ![rkey[t]] = kMaxSequenceNumber]
          BY <2>1, GrantedCases
        <5>2. QED
          BY <3>2, <4>1, <5>1
      <4>3. QED
        BY <1>11, <2>1, <2>2, <4>2 DEF Acquire
    <3>3. QED
      BY <3>1, <3>2
  <2>3. CASE locks'[j] # t
    BY <1>0, <1>11, <2>1, <2>3, GrantedFrame DEF Acquire
  <2>4. QED
    BY <2>2, <2>3
<1>12. ASSUME NEW t \in Txn, Steal(t) PROVE Remembered(j)'
  <2>1. Granted(t) /\ rkey[t] \in Key /\ Live(t) /\ locks' = [locks EXCEPT ![rkey[t]] = t]
    BY <1>12 DEF Steal, Waiting, CallInv, CallOk
  <2>2. CASE locks'[j] = t
    <3>1. CASE j = rkey[t]
      BY <1>12, <2>1, <2>2, <3>1, GrantedCases, kMaxIsTracked DEF Steal
    <3>2. CASE j # rkey[t]
      <4>1. locks[j] = t /\ tracked[t][j] # NotTracked
        BY <1>0, <1>12, <2>1, <2>2, <3>2 DEF Steal, Waiting
      <4>2. tracked'[t][j] # NotTracked
        <5>1. tracked' = tracked \/ tracked'[t] = [tracked[t] EXCEPT ![rkey[t]] = kMaxSequenceNumber]
          BY <2>1, GrantedCases
        <5>2. QED
          BY <3>2, <4>1, <5>1
      <4>3. QED
        BY <1>12, <2>1, <2>2, <4>2 DEF Steal
    <3>3. QED
      BY <3>1, <3>2
  <2>3. CASE locks'[j] # t
    BY <1>0, <1>12, <2>1, <2>3, GrantedFrame DEF Steal
  <2>4. QED
    BY <2>2, <2>3
<1>13. ASSUME NEW t \in Txn, LockFail(t) PROVE Remembered(j)'
  BY <1>0, <1>13 DEF LockFail, Waiting
<1>14. ASSUME NEW t \in Txn, Validated(t) PROVE Remembered(j)'
  <2>1. rkey[t] \in Key
    BY <1>14 DEF Validated, CallInv, CallOk
  <2>2. locks' = locks /\ state' = state
    BY <1>14 DEF Validated
  <2>3. CASE locks[j] = t /\ j = rkey[t]
    BY <1>0, <1>14, <2>1, <2>2, <2>3, ValidatedTracks
  <2>4. CASE locks[j] # t
    <3>1. SUFFICES ASSUME NEW h \in Txn, h = locks[j] PROVE Remembered(j)'
      BY <2>2
    <3>2. pc'[h] = pc[h] /\ rkey'[h] = rkey[h]
      BY <1>14, <2>4, <3>1 DEF Validated
    <3>3. tracked'[h][j] = tracked[h][j]
      BY <1>14, <2>1, <2>4, <3>1, ValidatedTracks
    <3>4. QED
      BY <1>0, <2>2, <3>1, <3>2, <3>3
  <2>5. CASE locks[j] = t /\ j # rkey[t]
    <3>1. tracked[t][j] # NotTracked /\ Live(t)
      BY <1>0, <2>5
    <3>2. tracked'[t][j] = tracked[t][j]
      BY <1>14, <2>1, <2>5, ValidatedTracks
    <3>3. QED
      BY <2>2, <2>5, <3>1, <3>2
  <2>6. QED
    BY <2>3, <2>4, <2>5
<1>15. ASSUME NEW t \in Txn, Invalid(t) PROVE Remembered(j)'
  <2>1. locks' = locks /\ tracked' = tracked /\ state' = state /\ pc[t] = "validate"
    BY <1>15 DEF Invalid
  <2>2. \A h \in Txn : h # t => pc'[h] = pc[h] /\ rkey'[h] = rkey[h]
    BY <1>15 DEF Invalid
  <2>3. CASE tracked[t][rkey[t]] = NotTracked
    <3>1. pc' = [pc EXCEPT ![t] = "undo"] /\ rkey' = rkey
      BY <1>15, <2>3 DEF Invalid
    <3>2. QED
      BY <1>0, <2>1, <3>1
  <2>4. CASE tracked[t][rkey[t]] # NotTracked
    BY <1>0, <2>1, <2>2, <2>4
  <2>5. QED
    BY <2>3, <2>4
<1>16. ASSUME NEW t \in Txn, Undo(t) PROVE Remembered(j)'
  BY <1>0, <1>16 DEF Undo, UnLockKey
<1>17. ASSUME NEW t \in Txn, CommitCas(t) PROVE Remembered(j)'
  BY <1>0, <1>17 DEF CommitCas, CanCommit
<1>18. ASSUME NEW t \in Txn, CommitWrite(t) PROVE Remembered(j)'
  BY <1>0, <1>18 DEF CommitWrite, WriteImpl
<1>19. ASSUME NEW t \in Txn, CommitWriteFail(t) PROVE Remembered(j)'
  BY <1>0, <1>19 DEF CommitWriteFail
<1>20. ASSUME NEW t \in Txn, NEW k \in Key, UnLock(t, k) PROVE Remembered(j)'
  BY <1>0, <1>20 DEF UnLock, UnLockKey
<1>21. ASSUME NEW t \in Txn, ClearDone(t) PROVE Remembered(j)'
  BY <1>0, <1>21 DEF ClearDone
<1>22. ASSUME NEW t \in Txn, DeleteDone(t) PROVE Remembered(j)'
  BY <1>0, <1>22 DEF DeleteDone
<1>23. ASSUME NEW w \in UnlockedBatches, DbWriteUnlocked(w) PROVE Remembered(j)'
  BY <1>0, <1>23 DEF DbWriteUnlocked, WriteImpl, txnVars
<1>24. QED
  BY <1>0, <1>1, <1>2, <1>3, <1>4, <1>5, <1>6, <1>7, <1>8, <1>9, <1>10, <1>11, <1>12, <1>13,
     <1>14, <1>15, <1>16, <1>17, <1>18, <1>19, <1>20, <1>21, <1>22, <1>23 DEF Next, Call,
     Step

\* What a transaction tracks stays locked for it until its locks are stolen.
LEMMA LockStep == TypeOK /\ TypeOK' /\ CallInv /\ CommitInv /\ LockInv /\ [Next]_vars => LockInv'
<1> SUFFICES ASSUME TypeOK, TypeOK', CallInv, CommitInv, LockInv, [Next]_vars, NEW s \in Txn
             PROVE  LocksHeld(s)'
  BY DEF LockInv
<1>0. LocksHeld(s) /\ CallOk(s)
  BY DEF LockInv, CallInv
<1> USE NoKeyIsNoKey DEF TypeOK, LocksHeld, dbVars, Live, Idle, Return
<1>1. CASE UNCHANGED vars
  BY <1>0, <1>1 DEF vars, txnVars
<1>2. ASSUME NEW t \in Txn, NEW o \in TxnOptions, Begin(t, o) PROVE LocksHeld(s)'
  BY <1>0, <1>2 DEF Begin
<1>3. ASSUME NEW t \in Txn, Expire(t) PROVE LocksHeld(s)'
  BY <1>0, <1>3 DEF Expire
<1>4. ASSUME NEW t \in Txn, NEW k \in Key, Put(t, k) PROVE LocksHeld(s)'
  BY <1>0, <1>4 DEF Put
<1>5. ASSUME NEW t \in Txn, NEW k \in Key, PutUnlocked(t, k) PROVE LocksHeld(s)'
  BY <1>0, <1>5 DEF PutUnlocked
<1>6. ASSUME NEW t \in Txn, NEW k \in Key, DbPut(t, k) PROVE LocksHeld(s)'
  BY <1>0, <1>6 DEF DbPut
<1>7. ASSUME NEW t \in Txn, NEW w \in Batches, DbWrite(t, w) PROVE LocksHeld(s)'
  BY <1>0, <1>7 DEF DbWrite
<1>8. ASSUME NEW t \in Txn, Commit(t) PROVE LocksHeld(s)'
  <2>1. pc'[s] \in {"validate", "undo"} => pc[s] = pc'[s]
    BY <1>8 DEF Commit
  <2>2. QED
    BY <1>0, <1>8, <2>1 DEF Commit
<1>9. ASSUME NEW t \in Txn, Rollback(t) PROVE LocksHeld(s)'
  BY <1>0, <1>9 DEF Rollback
<1>10. ASSUME NEW t \in Txn, Drop(t) PROVE LocksHeld(s)'
  BY <1>0, <1>10 DEF Drop
<1>11. ASSUME NEW t \in Txn, Acquire(t) PROVE LocksHeld(s)'
  <2>1. Granted(t) /\ rkey[t] \in Key /\ locks' = [locks EXCEPT ![rkey[t]] = t]
    BY <1>11 DEF Acquire, Waiting, CallInv, CallOk
  <2>2. CASE s = t
    <3>1. \A k \in Key : tracked'[t][k] # NotTracked => tracked[t][k] # NotTracked \/ k = rkey[t]
      <4>1. tracked' = tracked \/ tracked'[t] = [tracked[t] EXCEPT ![rkey[t]] = kMaxSequenceNumber]
        BY <2>1, GrantedCases
      <4>2. QED
        BY <4>1
    <3>2. pc'[t] \in {"validate", "undo"} => rkey'[t] = rkey[t]
      BY <2>1, GrantedCases
    <3>3. state'[t] = state[t]
      BY <1>11 DEF Acquire, CanSteal
    <3>4. QED
      BY <1>0, <2>1, <2>2, <3>1, <3>2, <3>3
  <2>3. CASE s # t
    <3>1. pc'[s] = pc[s] /\ rkey'[s] = rkey[s] /\ tracked'[s] = tracked[s]
      BY <2>1, <2>3, GrantedFrame
    <3>2. state'[s] # "LOCKS_STOLEN" => state[s] = state'[s] /\ locks[rkey[t]] # s
      BY <1>11, <2>3, NoTxnAssumption DEF Acquire, Holder
    <3>3. QED
      BY <1>0, <2>1, <3>1, <3>2
  <2>4. QED
    BY <2>2, <2>3
<1>12. ASSUME NEW t \in Txn, Steal(t) PROVE LocksHeld(s)'
  <2>1. Granted(t) /\ rkey[t] \in Key /\ locks' = [locks EXCEPT ![rkey[t]] = t]
    BY <1>12 DEF Steal, Waiting, CallInv, CallOk
  <2>2. CASE s = t
    <3>1. \A k \in Key : tracked'[t][k] # NotTracked => tracked[t][k] # NotTracked \/ k = rkey[t]
      <4>1. tracked' = tracked \/ tracked'[t] = [tracked[t] EXCEPT ![rkey[t]] = kMaxSequenceNumber]
        BY <2>1, GrantedCases
      <4>2. QED
        BY <4>1
    <3>2. pc'[t] \in {"validate", "undo"} => rkey'[t] = rkey[t]
      BY <2>1, GrantedCases
    <3>3. state'[t] = state[t]
      BY <1>12 DEF Steal, CanSteal
    <3>4. QED
      BY <1>0, <2>1, <2>2, <3>1, <3>2, <3>3
  <2>3. CASE s # t
    <3>1. pc'[s] = pc[s] /\ rkey'[s] = rkey[s] /\ tracked'[s] = tracked[s]
      BY <2>1, <2>3, GrantedFrame
    <3>2. state'[s] # "LOCKS_STOLEN" => state[s] = state'[s] /\ locks[rkey[t]] # s
      BY <1>12, <2>3 DEF Steal, Holder, CanSteal
    <3>3. QED
      BY <1>0, <2>1, <3>1, <3>2
  <2>4. QED
    BY <2>2, <2>3
<1>13. ASSUME NEW t \in Txn, LockFail(t) PROVE LocksHeld(s)'
  BY <1>0, <1>13 DEF LockFail, Waiting
<1>14. ASSUME NEW t \in Txn, Validated(t) PROVE LocksHeld(s)'
  <2>1. rkey[t] \in Key /\ locks' = locks /\ state' = state
    BY <1>14 DEF Validated, CallInv, CallOk
  <2>2. \A k \in Key : s # t \/ k # rkey[t] => tracked'[s][k] = tracked[s][k]
    BY <1>14, <2>1, ValidatedTracks
  <2>3. pc[t] = "validate" /\ pc'[t] \notin {"validate", "undo"}
    BY <1>14 DEF Validated
  <2>4. s # t => pc'[s] = pc[s] /\ rkey'[s] = rkey[s]
    BY <1>14 DEF Validated
  <2>5. QED
    BY <1>0, <2>1, <2>2, <2>3, <2>4
<1>15. ASSUME NEW t \in Txn, Invalid(t) PROVE LocksHeld(s)'
  BY <1>0, <1>15 DEF Invalid
<1>16. ASSUME NEW t \in Txn, Undo(t) PROVE LocksHeld(s)'
  <2>1. rkey[t] \in Key /\ tracked[t][rkey[t]] = NotTracked
    BY <1>16 DEF Undo, CallInv, CallOk
  <2>2. QED
    BY <1>0, <1>16, <2>1 DEF Undo, UnLockKey
<1>17. ASSUME NEW t \in Txn, CommitCas(t) PROVE LocksHeld(s)'
  BY <1>0, <1>17 DEF CommitCas, CanCommit
<1>18. ASSUME NEW t \in Txn, CommitWrite(t) PROVE LocksHeld(s)'
  <2>1. pc[t] = "write" => state[t] # "LOCKS_STOLEN"
    BY DEF CommitInv, WrittenOnce
  <2>2. QED
    BY <1>0, <1>18, <2>1 DEF CommitWrite
<1>19. ASSUME NEW t \in Txn, CommitWriteFail(t) PROVE LocksHeld(s)'
  BY <1>0, <1>19 DEF CommitWriteFail
<1>20. ASSUME NEW t \in Txn, NEW k \in Key, UnLock(t, k) PROVE LocksHeld(s)'
  BY <1>0, <1>20 DEF UnLock, UnLockKey
<1>21. ASSUME NEW t \in Txn, ClearDone(t) PROVE LocksHeld(s)'
  <2>1. pc[t] = "clear_ok" => state[t] # "LOCKS_STOLEN"
    BY DEF CommitInv, WrittenOnce
  <2>2. QED
    BY <1>0, <1>21, <2>1 DEF ClearDone
<1>22. ASSUME NEW t \in Txn, DeleteDone(t) PROVE LocksHeld(s)'
  <2>1. \A k \in Key : tracked[t][k] = NotTracked
    BY <1>22 DEF DeleteDone, TrackedKeys
  <2>2. QED
    BY <1>0, <1>22, <2>1 DEF DeleteDone
<1>23. ASSUME NEW w \in UnlockedBatches, DbWriteUnlocked(w) PROVE LocksHeld(s)'
  BY <1>0, <1>23 DEF DbWriteUnlocked, WriteImpl, txnVars
<1>24. QED
  BY <1>0, <1>1, <1>2, <1>3, <1>4, <1>5, <1>6, <1>7, <1>8, <1>9, <1>10, <1>11, <1>12, <1>13,
     <1>14, <1>15, <1>16, <1>17, <1>18, <1>19, <1>20, <1>21, <1>22, <1>23 DEF Next, Call,
     Step

\* Only expired transactions are robbed.
LEMMA ExpiryStep == TypeOK /\ CallInv /\ ExpiryInv /\ [Next]_vars => ExpiryInv'
<1> SUFFICES ASSUME TypeOK, CallInv, ExpiryInv, [Next]_vars,
                    NEW s \in Txn, state'[s] = "LOCKS_STOLEN"
             PROVE  expired'[s]
  BY DEF ExpiryInv
<1>1. ASSUME state' = state, expired' = expired PROVE expired'[s]
  BY <1>1 DEF ExpiryInv
<1>2. ASSUME NEW t \in Txn, \/ \E o \in TxnOptions : Begin(t, o)
                            \/ \E k \in Key : DbPut(t, k)
                            \/ \E w \in Batches : DbWrite(t, w)
      PROVE  expired'[s]
  BY <1>2 DEF ExpiryInv, TypeOK, Begin, DbPut, DbWrite
<1>3. ASSUME NEW t \in Txn, Expire(t) PROVE expired'[s]
  BY <1>3 DEF ExpiryInv, TypeOK, Expire
<1>4. ASSUME NEW t \in Txn, Steal(t) PROVE expired'[s]
  <2>1. expired' = expired /\ expired[Holder(t)]
    BY <1>4 DEF Steal, CanSteal
  <2>2. s = Holder(t) \/ state[s] = "LOCKS_STOLEN"
    BY <1>4 DEF Steal, TypeOK
  <2>3. QED
    BY <2>1, <2>2 DEF ExpiryInv
<1>5. ASSUME NEW t \in Txn, CommitCas(t) \/ CommitWrite(t) \/ ClearDone(t) PROVE expired'[s]
  <2>1. expired' = expired
    BY <1>5 DEF CommitCas, CommitWrite, ClearDone
  <2>2. state'[s] # "LOCKS_STOLEN" \/ state[s] = "LOCKS_STOLEN"
    BY <1>5 DEF CommitCas, CommitWrite, ClearDone, TypeOK
  <2>3. QED
    BY <2>1, <2>2 DEF ExpiryInv
<1>6. ASSUME NEW t \in Txn, DeleteDone(t) PROVE expired'[s]
  BY <1>6 DEF ExpiryInv, TypeOK, DeleteDone
<1>7. ASSUME NEW t \in Txn, \/ Commit(t) \/ Rollback(t) \/ Drop(t) \/ Acquire(t) \/ LockFail(t)
                            \/ Validated(t) \/ Invalid(t) \/ Undo(t) \/ CommitWriteFail(t)
                            \/ \E k \in Key : Put(t, k) \/ PutUnlocked(t, k) \/ UnLock(t, k)
      PROVE  expired'[s]
  BY <1>1, <1>7 DEF Commit, Rollback, Drop, Acquire, LockFail, Validated, Invalid, Undo,
                    CommitWriteFail, Put, PutUnlocked, UnLock
<1>8. ASSUME NEW w \in UnlockedBatches, DbWriteUnlocked(w) PROVE expired'[s]
  BY <1>1, <1>8 DEF DbWriteUnlocked, txnVars
<1>9. CASE UNCHANGED vars
  BY <1>1, <1>9 DEF vars, txnVars
<1>10. QED
  BY <1>2, <1>3, <1>4, <1>5, <1>6, <1>7, <1>8, <1>9 DEF Next, Call, Step

\* Whatever a commit may write is tracked, so locked.
LEMMA BatchStep == TypeOK /\ TypeOK' /\ CallInv /\ BatchInv /\ [Next]_vars => BatchInv'
<1> SUFFICES ASSUME TypeOK, TypeOK', CallInv, BatchInv, [Next]_vars, NEW s \in Txn
             PROVE  BatchTracked(s)'
  BY DEF BatchInv
<1>0. BatchTracked(s) /\ CallOk(s)
  BY DEF BatchInv, CallInv
<1> USE NoKeyIsNoKey DEF TypeOK, BatchTracked, dbVars, Live, Idle, Return
<1>1. CASE UNCHANGED vars
  BY <1>0, <1>1 DEF vars, txnVars
<1>2. ASSUME NEW t \in Txn, NEW o \in TxnOptions, Begin(t, o) PROVE BatchTracked(s)'
  BY <1>0, <1>2 DEF Begin, CallOk
<1>3. ASSUME NEW t \in Txn, Expire(t) PROVE BatchTracked(s)'
  BY <1>0, <1>3 DEF Expire
<1>4. ASSUME NEW t \in Txn, NEW k \in Key, Put(t, k) PROVE BatchTracked(s)'
  BY <1>0, <1>4 DEF Put
<1>5. ASSUME NEW t \in Txn, NEW k \in Key, PutUnlocked(t, k) PROVE BatchTracked(s)'
  BY <1>0, <1>5 DEF PutUnlocked
<1>6. ASSUME NEW t \in Txn, NEW k \in Key, DbPut(t, k) PROVE BatchTracked(s)'
  BY <1>0, <1>6 DEF DbPut, CallOk
<1>7. ASSUME NEW t \in Txn, NEW w \in Batches, DbWrite(t, w) PROVE BatchTracked(s)'
  BY <1>0, <1>7 DEF DbWrite
<1>8. ASSUME NEW t \in Txn, Commit(t) PROVE BatchTracked(s)'
  BY <1>0, <1>8 DEF Commit
<1>9. ASSUME NEW t \in Txn, Rollback(t) PROVE BatchTracked(s)'
  BY <1>0, <1>9 DEF Rollback
<1>10. ASSUME NEW t \in Txn, Drop(t) PROVE BatchTracked(s)'
  BY <1>0, <1>10 DEF Drop
<1>11. ASSUME NEW t \in Txn, Acquire(t) PROVE BatchTracked(s)'
  <2>1. Granted(t) /\ rkey[t] \in Key /\ batch' = batch /\ kind' = kind /\ opts' = opts
    BY <1>11 DEF Acquire, Waiting, CallInv, CallOk
  <2>2. CASE s # t
    BY <1>0, <2>1, <2>2, GrantedFrame
  <2>3. CASE s = t /\ pc[t] = "lock"
    <3>1. pc'[t] = "validate" /\ tracked' = tracked
      BY <2>1, <2>3, GrantedCases
    <3>2. QED
      BY <1>0, <2>1, <2>3, <3>1
  <2>4. CASE s = t /\ pc[t] = "lockbatch"
    <3>1. kind[t] = "batch" /\ tracked'[t] = [tracked[t] EXCEPT ![rkey[t]] = kMaxSequenceNumber]
      BY <1>0, <2>1, <2>4, GrantedCases DEF CallOk
    <3>2. pc'[t] = "lockbatch" \/ \A k \in batch[t] : tracked[t][k] # NotTracked \/ k = rkey[t]
      BY <2>1, <2>4, GrantedCases
    <3>3. QED
      BY <2>1, <2>4, <3>1, <3>2, kMaxIsTracked
  <2>5. QED
    BY <1>11, <2>2, <2>3, <2>4 DEF Acquire, Waiting
<1>12. ASSUME NEW t \in Txn, Steal(t) PROVE BatchTracked(s)'
  <2>1. Granted(t) /\ rkey[t] \in Key /\ batch' = batch /\ kind' = kind /\ opts' = opts
    BY <1>12 DEF Steal, Waiting, CallInv, CallOk
  <2>2. CASE s # t
    BY <1>0, <2>1, <2>2, GrantedFrame
  <2>3. CASE s = t /\ pc[t] = "lock"
    <3>1. pc'[t] = "validate" /\ tracked' = tracked
      BY <2>1, <2>3, GrantedCases
    <3>2. QED
      BY <1>0, <2>1, <2>3, <3>1
  <2>4. CASE s = t /\ pc[t] = "lockbatch"
    <3>1. kind[t] = "batch" /\ tracked'[t] = [tracked[t] EXCEPT ![rkey[t]] = kMaxSequenceNumber]
      BY <1>0, <2>1, <2>4, GrantedCases DEF CallOk
    <3>2. pc'[t] = "lockbatch" \/ \A k \in batch[t] : tracked[t][k] # NotTracked \/ k = rkey[t]
      BY <2>1, <2>4, GrantedCases
    <3>3. QED
      BY <2>1, <2>4, <3>1, <3>2, kMaxIsTracked
  <2>5. QED
    BY <1>12, <2>2, <2>3, <2>4 DEF Steal, Waiting
<1>13. ASSUME NEW t \in Txn, LockFail(t) PROVE BatchTracked(s)'
  BY <1>0, <1>13 DEF LockFail, Waiting, CallOk
<1>14. ASSUME NEW t \in Txn, Validated(t) PROVE BatchTracked(s)'
  <2>1. rkey[t] \in Key /\ kind' = kind /\ opts' = opts /\ pc[t] = "validate" /\ kind[t] # "batch"
    BY <1>14 DEF Validated, CallInv, CallOk
  <2>2. CASE s # t
    <3>1. pc'[s] = pc[s] /\ batch'[s] = batch[s]
      BY <1>14, <2>2 DEF Validated
    <3>2. \A k \in Key : tracked'[s][k] = tracked[s][k]
      BY <1>14, <2>1, <2>2, ValidatedTracks
    <3>3. QED
      BY <1>0, <2>1, <3>1, <3>2
  <2>3. CASE s = t
    <3>1. batch'[t] \subseteq batch[t] \cup {rkey[t]}
      BY <1>14 DEF Validated
    <3>2. \A k \in Key : tracked[t][k] # NotTracked \/ k = rkey[t] => tracked'[t][k] # NotTracked
      BY <1>14, <2>1, ValidatedTracks
    <3>3. QED
      BY <1>0, <2>1, <2>3, <3>1, <3>2
  <2>4. QED
    BY <2>2, <2>3
<1>15. ASSUME NEW t \in Txn, Invalid(t) PROVE BatchTracked(s)'
  BY <1>0, <1>15 DEF Invalid
<1>16. ASSUME NEW t \in Txn, Undo(t) PROVE BatchTracked(s)'
  BY <1>0, <1>16 DEF Undo, UnLockKey
<1>17. ASSUME NEW t \in Txn, CommitCas(t) PROVE BatchTracked(s)'
  BY <1>0, <1>17 DEF CommitCas, CanCommit
<1>18. ASSUME NEW t \in Txn, CommitWrite(t) PROVE BatchTracked(s)'
  BY <1>0, <1>18 DEF CommitWrite, WriteImpl
<1>19. ASSUME NEW t \in Txn, CommitWriteFail(t) PROVE BatchTracked(s)'
  BY <1>0, <1>19 DEF CommitWriteFail
<1>20. ASSUME NEW t \in Txn, NEW k \in Key, UnLock(t, k) PROVE BatchTracked(s)'
  BY <1>0, <1>20 DEF UnLock, UnLockKey
<1>21. ASSUME NEW t \in Txn, ClearDone(t) PROVE BatchTracked(s)'
  BY <1>0, <1>21 DEF ClearDone
<1>22. ASSUME NEW t \in Txn, DeleteDone(t) PROVE BatchTracked(s)'
  BY <1>0, <1>22 DEF DeleteDone
<1>23. ASSUME NEW w \in UnlockedBatches, DbWriteUnlocked(w) PROVE BatchTracked(s)'
  BY <1>0, <1>23 DEF DbWriteUnlocked, WriteImpl, txnVars
<1>24. QED
  BY <1>0, <1>1, <1>2, <1>3, <1>4, <1>5, <1>6, <1>7, <1>8, <1>9, <1>10, <1>11, <1>12, <1>13,
     <1>14, <1>15, <1>16, <1>17, <1>18, <1>19, <1>20, <1>21, <1>22, <1>23 DEF Next, Call,
     Step

==============================================================================
