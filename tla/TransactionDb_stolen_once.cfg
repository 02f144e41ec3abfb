SPECIFICATION Spec
CONSTANTS
  Key = {1, 2}
  Txn = {t1, t2}
  NoTxn = NoTxn
  MaxSeq = 1
  TxnOptions <- OnlyExpiring
  Batches <- NoBatches
  UnlockedBatches <- NoBatches
SYMMETRY TxnSymmetry
INVARIANTS ExpiredLocksAreNotValid
CHECK_DEADLOCK FALSE
