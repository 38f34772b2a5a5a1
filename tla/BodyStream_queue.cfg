SPECIFICATION CarefulSpec
CONSTANTS
  Bodies = {b1, b2, b3}
  Bytes = {x, ff}
  EofByte = ff
  BufSize = 2
  HostEofs = TRUE
  MaxLen = 3
PROPERTIES IsQueue
