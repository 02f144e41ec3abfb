SPECIFICATION Spec
CONSTANTS
  Txn = {t1, t2}
  NoTxn = NoTxn
  k1 = k1
  k2 = k2
  s1 = s1
  s2 = s2
  c1 = c1
  c2 = c2
  Key <- Keys
  StripeOf <- TwoStripes
  CfOf <- TwoColumnFamilies
  NoStripe = NoStripe
  Expiring = {t1, t2}
  Detecting = {t1, t2}
  Depth = 4
  Droppable <- Families
  k3 = k3
  Requests <- FewRequests
SYMMETRY Symmetry
CHECK_DEADLOCK FALSE
INVARIANTS IndInv MutualExclusion NoLockLeak
