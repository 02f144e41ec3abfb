--------------------------- MODULE TransactionDbTypes ---------------------------
(***************************************************************************)
(* Types, and where a transaction's call stands: the part of the inductive *)
(* invariant of TransactionDb every other part rests on.                   *)
(***************************************************************************)
EXTENDS TransactionDb, TLAPS

\* Every variable keeps its type.
LEMMA TypeInit == Init => TypeOK
  BY MaxSeqAssumption DEF Init, TypeOK, State, PC, Options, InternalOptions, NoKey, NoSnapshot, NotTracked

\* The sequence number TryLock records for a key is a sequence number.
LEMMA TrackSeqType ==
  ASSUME TypeOK, NEW t \in Txn, NEW k \in Key
  PROVE  TrackSeq(t, k) \in 0..kMaxSequenceNumber
<1>1. seq \in 0..MaxSeq /\ (snapshot[t] \in 0..MaxSeq \/ snapshot[t] = NoSnapshot)
  BY DEF TypeOK
<1>2. tracked[t][k] \in 0..kMaxSequenceNumber \/ tracked[t][k] = NotTracked
  BY DEF TypeOK
<1>3. TrackedAt(t, k) \in 0..kMaxSequenceNumber
  BY <1>2, MaxSeqAssumption DEF TrackedAt, kMaxSequenceNumber
<1>4. QED
  BY <1>1, <1>3, MaxSeqAssumption DEF TrackSeq, DoValidate, kMaxSequenceNumber

\* PointLockTracker::Track keeps the tracker's type.
LEMMA TrackType ==
  ASSUME TypeOK, NEW t \in Txn, NEW k \in Key, NEW s \in 0..kMaxSequenceNumber, Track(t, k, s)
  PROVE  tracked' \in [Txn -> [Key -> 0..kMaxSequenceNumber \cup {NotTracked}]]
<1> DEFINE R == 0..kMaxSequenceNumber \cup {NotTracked}
           x == IF tracked[t][k] = NotTracked \/ s < tracked[t][k] THEN s ELSE tracked[t][k]
<1>1. tracked \in [Txn -> [Key -> R]]
  BY DEF TypeOK
<1>2. x \in R
  BY <1>1
<1>3. tracked' = [tracked EXCEPT ![t][k] = x]
  BY DEF Track
<1> HIDE DEF R, x
<1>4. tracked' \in [Txn -> [Key -> R]]
  BY <1>1, <1>2, <1>3
<1>5. QED
  BY <1>4 DEF R

\* The types of what a lock grant changes.
LEMMA GrantedType ==
  ASSUME TypeOK, NEW t \in Txn, rkey[t] \in Key, Granted(t)
  PROVE  /\ pc' \in [Txn -> PC]
         /\ rkey' \in [Txn -> Key \cup {NoKey}]
         /\ tracked' \in [Txn -> [Key -> 0..kMaxSequenceNumber \cup {NotTracked}]]
<1> DEFINE R == 0..kMaxSequenceNumber \cup {NotTracked}
<1>1. /\ pc \in [Txn -> PC] /\ rkey \in [Txn -> Key \cup {NoKey}]
      /\ tracked \in [Txn -> [Key -> R]] /\ batch[t] \subseteq Key
  BY DEF TypeOK
<1>2. kMaxSequenceNumber \in R
  BY MaxSeqAssumption DEF kMaxSequenceNumber
<1> HIDE DEF R
<1>3. CASE pc[t] = "lock" /\ pc' = [pc EXCEPT ![t] = "validate"] /\ UNCHANGED <<tracked, rkey>>
  BY <1>1, <1>3 DEF R, PC
<1>4. CASE /\ pc[t] = "lockbatch"
           /\ tracked' = [tracked EXCEPT ![t][rkey[t]] = kMaxSequenceNumber]
           /\ NextInBatch(t)
  <2>1. tracked' \in [Txn -> [Key -> R]]
    BY <1>1, <1>2, <1>4
  <2>2. pc' \in [Txn -> PC] /\ rkey' \in [Txn -> Key \cup {NoKey}]
    <3> DEFINE todo == {k \in batch[t] : tracked[t][k] = NotTracked /\ k # rkey[t]}
    <3>1. CASE todo = {}
      BY <1>1, <1>4, <3>1 DEF NextInBatch, PC
    <3>2. CASE todo # {}
      <4>1. PICK k \in todo : rkey' = [rkey EXCEPT ![t] = k]
        BY <1>4, <3>2 DEF NextInBatch
      <4>2. pc' = pc
        BY <1>4, <3>2 DEF NextInBatch
      <4>3. k \in Key
        BY <1>1
      <4>4. QED
        BY <1>1, <4>1, <4>2, <4>3
    <3>3. QED
      BY <3>1, <3>2
  <2>3. QED
    BY <2>1, <2>2 DEF R
<1>5. QED
  BY <1>3, <1>4 DEF Granted

\* The marker for "this call is locking nothing" is not a key.
LEMMA NoKeyIsNoKey == NoKey \notin Key
  BY KeyAssumption DEF NoKey

\* What LockBatch tracks its keys at counts as tracked.
LEMMA kMaxIsTracked == kMaxSequenceNumber # NotTracked
  BY MaxSeqAssumption DEF kMaxSequenceNumber, NotTracked

\* A lock grant changes nothing of another transaction.
LEMMA GrantedFrame ==
  ASSUME TypeOK, NEW t \in Txn, NEW s \in Txn, s # t, Granted(t)
  PROVE  pc'[s] = pc[s] /\ rkey'[s] = rkey[s] /\ tracked'[s] = tracked[s]
<1>1. CASE pc[t] = "lock" /\ pc' = [pc EXCEPT ![t] = "validate"] /\ UNCHANGED <<tracked, rkey>>
  BY <1>1 DEF TypeOK
<1>2. CASE /\ pc[t] = "lockbatch"
           /\ tracked' = [tracked EXCEPT ![t][rkey[t]] = kMaxSequenceNumber]
           /\ NextInBatch(t)
  <2>1. tracked'[s] = tracked[s]
    BY <1>2 DEF TypeOK
  <2>2. pc'[s] = pc[s] /\ rkey'[s] = rkey[s]
    <3> DEFINE todo == {k \in batch[t] : tracked[t][k] = NotTracked /\ k # rkey[t]}
    <3>1. CASE todo = {}
      BY <1>2, <3>1 DEF NextInBatch, TypeOK
    <3>2. CASE todo # {}
      <4>1. PICK k \in todo : rkey' = [rkey EXCEPT ![t] = k]
        BY <1>2, <3>2 DEF NextInBatch
      <4>2. pc' = pc
        BY <1>2, <3>2 DEF NextInBatch
      <4>3. QED
        BY <4>1, <4>2 DEF TypeOK
    <3>3. QED
      BY <3>1, <3>2
  <2>3. QED
    BY <2>1, <2>2
<1>3. QED
  BY <1>1, <1>2 DEF Granted

\* What a lock grant does to the transaction itself: Operate goes on to
\* validation, LockBatch tracks the key and goes on to the next one, or to the
\* commit once all are tracked.
LEMMA GrantedCases ==
  ASSUME TypeOK, NEW t \in Txn, rkey[t] \in Key, Granted(t)
  PROVE  \/ pc[t] = "lock" /\ pc'[t] = "validate" /\ rkey'[t] = rkey[t] /\ tracked' = tracked
         \/ /\ pc[t] = "lockbatch"
            /\ tracked'[t] = [tracked[t] EXCEPT ![rkey[t]] = kMaxSequenceNumber]
            /\ \/ /\ pc'[t] = "cas" /\ rkey'[t] = NoKey
                  /\ \A k \in batch[t] : tracked[t][k] # NotTracked \/ k = rkey[t]
               \/ pc'[t] = "lockbatch" /\ rkey'[t] \in batch[t]
<1>1. CASE pc[t] = "lock" /\ pc' = [pc EXCEPT ![t] = "validate"] /\ UNCHANGED <<tracked, rkey>>
  BY <1>1 DEF TypeOK
<1>2. CASE /\ pc[t] = "lockbatch"
           /\ tracked' = [tracked EXCEPT ![t][rkey[t]] = kMaxSequenceNumber]
           /\ NextInBatch(t)
  <2>1. tracked'[t] = [tracked[t] EXCEPT ![rkey[t]] = kMaxSequenceNumber]
    BY <1>2 DEF TypeOK
  <2> DEFINE todo == {k \in batch[t] : tracked[t][k] = NotTracked /\ k # rkey[t]}
  <2>2. CASE todo = {}
    <3>1. \A k \in batch[t] : tracked[t][k] # NotTracked \/ k = rkey[t]
      BY <2>2
    <3>2. pc'[t] = "cas" /\ rkey'[t] = NoKey
      BY <1>2, <2>2 DEF NextInBatch, TypeOK
    <3>3. QED
      BY <1>2, <2>1, <3>1, <3>2
  <2>3. CASE todo # {}
    <3>1. PICK k \in todo : rkey' = [rkey EXCEPT ![t] = k]
      BY <1>2, <2>3 DEF NextInBatch
    <3>2. pc' = pc
      BY <1>2, <2>3 DEF NextInBatch
    <3>3. rkey'[t] \in batch[t]
      BY <3>1 DEF TypeOK
    <3>4. QED
      BY <1>2, <2>1, <3>2, <3>3
  <2>4. QED
    BY <2>2, <2>3
<1>3. QED
  BY <1>1, <1>2 DEF Granted

\* Every step of every call keeps the types; that a running call has a key to
\* lock is part of CallInv.
LEMMA TypeStep == TypeOK /\ CallInv /\ [Next]_vars => TypeOK'
<1> SUFFICES ASSUME TypeOK, CallInv, [Next]_vars PROVE TypeOK'
  OBVIOUS
<1> USE DEF TypeOK, State, PC, dbVars, Live, Idle, Return, NoKey, NoSnapshot, NotTracked,
            kMaxSequenceNumber
<1>1. CASE UNCHANGED vars
  BY <1>1 DEF vars, txnVars
<1>2. ASSUME NEW t \in Txn, NEW o \in TxnOptions, Begin(t, o) PROVE TypeOK'
  BY <1>2, OptionsAssumption DEF Begin, Options
<1>3. ASSUME NEW t \in Txn, Expire(t) PROVE TypeOK'
  BY <1>3 DEF Expire
<1>4. ASSUME NEW t \in Txn, NEW k \in Key, Put(t, k) PROVE TypeOK'
  BY <1>4 DEF Put
<1>5. ASSUME NEW t \in Txn, NEW k \in Key, PutUnlocked(t, k) PROVE TypeOK'
  BY <1>5 DEF PutUnlocked
<1>6. ASSUME NEW t \in Txn, NEW k \in Key, DbPut(t, k) PROVE TypeOK'
  BY <1>6 DEF DbPut, Options, InternalOptions
<1>7. ASSUME NEW t \in Txn, NEW w \in Batches, DbWrite(t, w) PROVE TypeOK'
  BY <1>7, BatchesAssumption DEF DbWrite, Options, InternalOptions
<1>8. ASSUME NEW t \in Txn, Commit(t) \/ Rollback(t) \/ Drop(t) PROVE TypeOK'
  BY <1>8 DEF Commit, Rollback, Drop
<1>9. ASSUME NEW t \in Txn, Acquire(t) PROVE TypeOK'
  <2>1. rkey[t] \in Key
    BY <1>9 DEF Acquire, Waiting, CallInv, CallOk
  <2>2. locks' \in [Key -> Txn \cup {NoTxn}]
    BY <1>9 DEF Acquire
  <2>3. Granted(t)
    BY <1>9 DEF Acquire
  <2>4. QED
    BY <1>9, <2>1, <2>2, <2>3, GrantedType DEF Acquire
<1>10. ASSUME NEW t \in Txn, Steal(t) PROVE TypeOK'
  <2>1. state' \in [Txn -> State]
    BY <1>10 DEF Steal
  <2>2. locks' \in [Key -> Txn \cup {NoTxn}]
    BY <1>10 DEF Steal
  <2>3. Granted(t)
    BY <1>10 DEF Steal
  <2>4. rkey[t] \in Key
    BY <1>10 DEF Steal, Waiting, CallInv, CallOk
  <2>5. QED
    BY <1>10, <2>1, <2>2, <2>3, <2>4, GrantedType DEF Steal
<1>11. ASSUME NEW t \in Txn, LockFail(t) PROVE TypeOK'
  BY <1>11 DEF LockFail
<1>12. ASSUME NEW t \in Txn, Validated(t) PROVE TypeOK'
  <2>1. rkey[t] \in Key
    BY <1>12 DEF Validated, CallInv, CallOk
  <2>2. TrackSeq(t, rkey[t]) \in 0..kMaxSequenceNumber
    BY <2>1, TrackSeqType
  <2>3. tracked' \in [Txn -> [Key -> 0..kMaxSequenceNumber \cup {NotTracked}]]
    <3> DEFINE s == TrackSeq(t, rkey[t])
    <3>1. Track(t, rkey[t], s)
      BY <1>12 DEF Validated
    <3> HIDE DEF s
    <3>2. QED
      BY <3>1, <2>1, <2>2, TrackType DEF s
  <2>4. batch' \in [Txn -> SUBSET Key]
    <3>1. batch[t] \cup {rkey[t]} \in SUBSET Key
      BY <2>1
    <3>2. QED
      BY <1>12, <3>1 DEF Validated
  <2>5. QED
    BY <1>12, <2>3, <2>4 DEF Validated
<1>13. ASSUME NEW t \in Txn, Invalid(t) \/ Undo(t) PROVE TypeOK'
  <2>1. CASE Invalid(t)
    BY <2>1 DEF Invalid
  <2>2. CASE Undo(t)
    BY <2>2 DEF Undo, UnLockKey
  <2>3. QED
    BY <1>13, <2>1, <2>2
<1>14. ASSUME NEW t \in Txn, CommitCas(t) PROVE TypeOK'
  BY <1>14 DEF CommitCas
<1>15. ASSUME NEW t \in Txn, CommitWrite(t) PROVE TypeOK'
  <2>1. seq' \in 0..MaxSeq /\ versions' \subseteq Version
    BY <1>15, MaxSeqAssumption DEF CommitWrite, WriteImpl, Version
  <2>2. state' \in [Txn -> State] /\ pc' \in [Txn -> PC]
    BY <1>15 DEF CommitWrite
  <2>3. QED
    BY <1>15, <2>1, <2>2 DEF CommitWrite
<1>16. ASSUME NEW t \in Txn, CommitWriteFail(t) PROVE TypeOK'
  BY <1>16 DEF CommitWriteFail
<1>17. ASSUME NEW t \in Txn, NEW k \in Key, UnLock(t, k) PROVE TypeOK'
  BY <1>17 DEF UnLock, UnLockKey
<1>18. ASSUME NEW t \in Txn, ClearDone(t) \/ DeleteDone(t) PROVE TypeOK'
  BY <1>18 DEF ClearDone, DeleteDone
<1>19. ASSUME NEW w \in UnlockedBatches, DbWriteUnlocked(w) PROVE TypeOK'
  BY <1>19, MaxSeqAssumption, BatchesAssumption DEF DbWriteUnlocked, WriteImpl, Version, txnVars
<1>20. QED
  BY <1>1, <1>2, <1>3, <1>4, <1>5, <1>6, <1>7, <1>8, <1>9, <1>10, <1>11, <1>12, <1>13,
     <1>14, <1>15, <1>16, <1>17, <1>18, <1>19 DEF Next, Call, Step

\* Which calls run in which kind of transaction.
LEMMA CallStep == TypeOK /\ TypeOK' /\ CallInv /\ [Next]_vars => CallInv'
<1> SUFFICES ASSUME TypeOK, TypeOK', CallInv, [Next]_vars, NEW s \in Txn
             PROVE  CallOk(s)'
  BY DEF CallInv
<1>0. CallOk(s)
  BY DEF CallInv
<1> USE NoKeyIsNoKey, BatchesAssumption DEF TypeOK, CallOk, dbVars, Live, Idle, Return, TrackedKeys
<1>1. CASE UNCHANGED vars
  BY <1>0, <1>1 DEF vars, txnVars
<1>2. ASSUME NEW t \in Txn, NEW o \in TxnOptions, Begin(t, o) PROVE CallOk(s)'
  BY <1>0, <1>2 DEF Begin
<1>3. ASSUME NEW t \in Txn, Expire(t) PROVE CallOk(s)'
  BY <1>0, <1>3 DEF Expire
<1>4. ASSUME NEW t \in Txn, NEW k \in Key, Put(t, k) PROVE CallOk(s)'
  BY <1>0, <1>4 DEF Put
<1>5. ASSUME NEW t \in Txn, NEW k \in Key, PutUnlocked(t, k) PROVE CallOk(s)'
  BY <1>0, <1>5 DEF PutUnlocked
<1>6. ASSUME NEW t \in Txn, NEW k \in Key, DbPut(t, k) PROVE CallOk(s)'
  BY <1>0, <1>6 DEF DbPut
<1>7. ASSUME NEW t \in Txn, NEW w \in Batches, DbWrite(t, w) PROVE CallOk(s)'
  BY <1>0, <1>7 DEF DbWrite, IsLeast
<1>8. ASSUME NEW t \in Txn, Commit(t) PROVE CallOk(s)'
  BY <1>0, <1>8 DEF Commit
<1>9. ASSUME NEW t \in Txn, Rollback(t) PROVE CallOk(s)'
  BY <1>0, <1>9 DEF Rollback
<1>10. ASSUME NEW t \in Txn, Drop(t) PROVE CallOk(s)'
  BY <1>0, <1>10 DEF Drop
<1>11. ASSUME NEW t \in Txn, Acquire(t) PROVE CallOk(s)'
  <2>1. Granted(t) /\ rkey[t] \in Key /\ Live(t)
    BY <1>11 DEF Acquire, Waiting, CallInv
  <2>2. CASE s # t
    BY <1>0, <1>11, <2>1, <2>2, GrantedFrame DEF Acquire, CanSteal
  <2>3. CASE s = t
    BY <1>0, <1>11, <2>1, <2>3, GrantedCases DEF Acquire, CanSteal
  <2>4. QED
    BY <2>2, <2>3
<1>12. ASSUME NEW t \in Txn, Steal(t) PROVE CallOk(s)'
  <2>1. Granted(t) /\ rkey[t] \in Key /\ Live(t)
    BY <1>12 DEF Steal, Waiting, CallInv
  <2>2. CASE s # t
    BY <1>0, <1>12, <2>1, <2>2, GrantedFrame DEF Steal, CanSteal
  <2>3. CASE s = t
    BY <1>0, <1>12, <2>1, <2>3, GrantedCases DEF Steal, CanSteal
  <2>4. QED
    BY <2>2, <2>3
<1>13. ASSUME NEW t \in Txn, LockFail(t) PROVE CallOk(s)'
  BY <1>0, <1>13 DEF LockFail, Waiting
<1>14. ASSUME NEW t \in Txn, Validated(t) PROVE CallOk(s)'
  BY <1>0, <1>14 DEF Validated, Track
<1>15. ASSUME NEW t \in Txn, Invalid(t) PROVE CallOk(s)'
  BY <1>0, <1>15 DEF Invalid, DoValidate
<1>16. ASSUME NEW t \in Txn, Undo(t) PROVE CallOk(s)'
  BY <1>0, <1>16 DEF Undo, UnLockKey
<1>17. ASSUME NEW t \in Txn, CommitCas(t) PROVE CallOk(s)'
  BY <1>0, <1>17 DEF CommitCas, CanCommit
<1>18. ASSUME NEW t \in Txn, CommitWrite(t) PROVE CallOk(s)'
  BY <1>0, <1>18 DEF CommitWrite, WriteImpl
<1>19. ASSUME NEW t \in Txn, CommitWriteFail(t) PROVE CallOk(s)'
  BY <1>0, <1>19 DEF CommitWriteFail
<1>20. ASSUME NEW t \in Txn, NEW k \in Key, UnLock(t, k) PROVE CallOk(s)'
  BY <1>0, <1>20 DEF UnLock, UnLockKey
<1>21. ASSUME NEW t \in Txn, ClearDone(t) PROVE CallOk(s)'
  BY <1>0, <1>21 DEF ClearDone
<1>22. ASSUME NEW t \in Txn, DeleteDone(t) PROVE CallOk(s)'
  BY <1>0, <1>22 DEF DeleteDone
<1>23. ASSUME NEW w \in UnlockedBatches, DbWriteUnlocked(w) PROVE CallOk(s)'
  BY <1>0, <1>23 DEF DbWriteUnlocked, WriteImpl, txnVars
<1>24. QED
  BY <1>0, <1>1, <1>2, <1>3, <1>4, <1>5, <1>6, <1>7, <1>8, <1>9, <1>10, <1>11, <1>12, <1>13,
     <1>14, <1>15, <1>16, <1>17, <1>18, <1>19, <1>20, <1>21, <1>22, <1>23 DEF Next, Call,
     Step

\* Validation tracks the key it was called for, and nothing else.
LEMMA ValidatedTracks ==
  ASSUME TypeOK, NEW t \in Txn, rkey[t] \in Key, Validated(t)
  PROVE  /\ tracked'[t][rkey[t]] # NotTracked
         /\ tracked'[t][rkey[t]] \in {tracked[t][rkey[t]], TrackSeq(t, rkey[t])}
         /\ \A s \in Txn, k \in Key : s # t \/ k # rkey[t] => tracked'[s][k] = tracked[s][k]
<1> DEFINE a == TrackSeq(t, rkey[t])
           x == IF tracked[t][rkey[t]] = NotTracked \/ a < tracked[t][rkey[t]]
                  THEN a ELSE tracked[t][rkey[t]]
<1>1. a # NotTracked
  <2>1. a \in 0..kMaxSequenceNumber
    BY TrackSeqType
  <2> HIDE DEF a
  <2>2. QED
    BY <2>1 DEF NotTracked, kMaxSequenceNumber
<1>2. x # NotTracked /\ x \in {tracked[t][rkey[t]], a}
  BY <1>1
<1>3. tracked' = [tracked EXCEPT ![t][rkey[t]] = x]
  BY DEF Validated, Track
<1> HIDE DEF a, x
<1>4. tracked'[t][rkey[t]] = x
  BY <1>3 DEF TypeOK
<1>5. \A s \in Txn, k \in Key : s # t \/ k # rkey[t] => tracked'[s][k] = tracked[s][k]
  BY <1>3 DEF TypeOK
<1>6. QED
  BY <1>2, <1>4, <1>5 DEF a

==============================================================================
