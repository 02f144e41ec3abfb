SPECIFICATION Spec
CONSTANTS
  Handle = {h1, h2, h3}
  Key = {k1, k2}
  None = None
  Inserts <- SomeItems
  Capacities <- NoShrinking
  HighRatios = {0, 50}
  LowRatios = {0, 50}
  MaxPins = 2
SYMMETRY Symmetry
INVARIANTS UsageIsExact OverCapacityIsPinned ListedIffIdle NoUseAfterFree PoolsAreSegments
PROPERTIES StrictLimit
