SPECIFICATION Spec
CONSTANTS
  Key = {1, 2}
  Txn = {t1, t2}
  NoTxn = NoTxn
  MaxSeq = 2
  TxnOptions <- OptingOut
  Batches <- AllKeys
  UnlockedBatches <- AllKeys
SYMMETRY TxnSymmetry
INVARIANTS IndInv NoLostUpdate AtomicCommit TrackedUnmodified DbWritesDoNotDeadlock
PROPERTIES StoreSpec
CHECK_DEADLOCK FALSE
