SPECIFICATION Spec
CONSTANTS
  Key = {1, 2, 3}
  Cf = 1
  Stores <- FewStores
  Updates <- FewMerges
  MaxUpdates = 3
  None = None
INVARIANT CurrentAtBaseAsDocumented
