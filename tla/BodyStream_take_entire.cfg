SPECIFICATION CarefulSpec
CONSTANTS
  Bodies = {b1}
  Bytes = {x, ff}
  EofByte = ff
  BufSize = 2
  HostEofs = FALSE
  MaxLen = 3
INVARIANTS TakesEntireBody
