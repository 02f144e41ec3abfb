SPECIFICATION Spec
CONSTANTS
  Ref = {r1, r2}
  MaxColumns = 2
  MaxCf = 5
SYMMETRY RefSymmetry
INVARIANTS DestructorFindsHandles
