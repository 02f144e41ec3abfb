SPECIFICATION FairSpec
CONSTANTS
  Key = {1}
  Txn = {t1, t2}
  NoTxn = NoTxn
  MaxSeq = 2
  TxnOptions <- OnlyExpiring
  Batches <- AllKeys
  UnlockedBatches <- NoBatches
INVARIANTS NoLeakedLocks LostOnlyByExpiry IndInv
PROPERTIES EveryCallReturns WritesUnderLock StolenNeverCommits
CHECK_DEADLOCK FALSE
