SPECIFICATION Spec
CONSTANTS
  k1 = k1
  a1 = a1
  b1 = b1
  Keys = {k1}
  Txs = {a1, b1}
  Owner <- MCOwner
  StateFails = TRUE
  MaxBodies = 2
SYMMETRY MCSymmetry
INVARIANTS
  TypeOK
  ObjectsHaveHandles
  HandlesAreHeld
