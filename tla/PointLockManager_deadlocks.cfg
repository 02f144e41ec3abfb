SPECIFICATION Spec
CONSTANTS
  Txn = {t1, t2, t3}
  NoTxn = NoTxn
  k1 = k1
  k2 = k2
  k3 = k3
  s1 = s1
  s2 = s2
  c1 = c1
  c2 = c2
  Key <- ThreeKeys
  StripeOf <- ThreeInTwoStripes
  CfOf <- OneColumnFamily
  NoStripe = NoStripe
  Expiring = {}
  Detecting = {t1, t2, t3}
  Depth = 4
  Droppable = {}
  Requests <- CycleRequests
SYMMETRY Symmetry
CHECK_DEADLOCK FALSE
INVARIANTS NoLostWakeUp DeadlocksAreSeen
