SPECIFICATION MSpec
CONSTANTS
  Msgs = {g1, g2}
  MsgBodies = {c1}
  NoBody = NoBody
  MaxSet = 2
PROPERTIES TtlIsNotPass
