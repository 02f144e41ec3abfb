SPECIFICATION Spec
CONSTANTS
  Ref = {r1, r2}
  MaxColumns = 2
  MaxCf = 5
SYMMETRY RefSymmetry
INVARIANTS IndInv HandlesMatchColumns ColumnsAreAddressable NoUseAfterDestroy NoHandleLeak
PROPERTIES OnlyTheNamedColumn
