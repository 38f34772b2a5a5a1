SPECIFICATION LSpec
CONSTANTS
  b1 = b1
  b2 = b2
  b3 = b3
  Builders = {b1, b2, b3}
  h1 = h1
  h2 = h2
  Handles = {h1, h2}
  n1 = n1
  n2 = n2
  Names = {n1, n2}
  None = None
SYMMETRY MCSymmetry
INVARIANTS
  HeadersAreUsed
