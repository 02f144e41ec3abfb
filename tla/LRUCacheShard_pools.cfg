SPECIFICATION Spec
CONSTANTS
  Handle = {h1, h2}
  Key = {k1, k2}
  None = None
  Inserts <- Items
  Capacities <- Shrinking
  HighRatios = {50}
  LowRatios = {50}
  MaxPins = 1
SYMMETRY Symmetry
INVARIANTS PoolUsageCovers
