SPECIFICATION Spec
CONSTANTS
  Bodies = {b1}
  Bytes = {x, ff}
  EofByte = ff
  BufSize = 2
  HostEofs = FALSE
  MaxLen = 3
PROPERTIES VecFillsBody
