SPECIFICATION FairSpec
CONSTANTS
  Exchanges = {x1, x2, x3}
  Places = {p1, p2, p3}
  Empty = Empty
CHECK_DEADLOCK FALSE
INVARIANTS
  TypeOK
  OneOwner
  CallsCanReturn
PROPERTIES
  IsAnswers
  CallsReturn
