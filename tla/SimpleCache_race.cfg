SPECIFICATION SimpleSpec
CONSTANTS
  k1 = k1
  k2 = k2
  a1 = a1
  a2 = a2
  b1 = b1
  b2 = b2
  c1 = c1
  NoTx = NoTx
  Keys = {k1}
  Txs = {a1, b1, c1}
  Owner <- MCOwner
  Outer <- MCOuter
  Below <- MCBelow
  StateFails = TRUE
  MaxBodies = 2
SYMMETRY MCSymmetry
INVARIANTS
  SimpleTypeOK
  NoInvalidOperation
PROPERTIES
  IsSingleFlight
  OwnEntryIsWhole
