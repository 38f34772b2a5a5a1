SPECIFICATION MCSpec
CONSTANTS
  Bodies = {b1, b2}
  Bytes = {x, ff}
  EofByte = ff
  BufSize = 2
  HostEofs = TRUE
  MaxLen = 3
  Builders = {l1, l2, l3}
  Handles = {d1, d2}
  Names = {w1}
  None = None
  StreamBuf = 2
  StreamRefuses = TRUE
  StreamMax = 4
  Msgs = {g1, g2}
  MsgBodies = {c1, c2}
  NoBody = NoBody
  MaxSet = 2
  HNames = {n1, n2}
  HValues = {v1, v2}
  Ranges = {r1}
  HMax = 2
  Founds = {f1}
  UsedOptions = {"surrogate_keys", "initial_age"}
  LastTime = 1
  SetterCalls = 2
  Clients = {k1, k2}
  U32Size = 4
  Ttls = {5}
  KvMax = 2
  KvPending = 1
  LogEndpoints = {e1, e2}
  NoEndpoint = e0
  Filters = {0, 3, 5}
  LogCalls = 2
  BackendNames = {p1}
  WordSize = 4
  Second = 2
  MsTimes = {5}
  SecsTimes = {0, 1, 2}
  EsiFragments = 3
SYMMETRY MCSymmetry
INVARIANTS
  TypeOK
  EofIsGenuine
  RefusedIffHeaders
  FinishedIsWhole
  NoByteTwice
  MTypeOK
  OneBodyOwner
  HTypeOK
  LoopsSeeSnapshot
  ITypeOK
  ReplaceIsHeld
  KTypeOK
  NeverOutlives
  NoLostUpdate
  GTypeOK
  TimesComeBack
  ETypeOK
PROPERTIES
  RequestErrors
  TtlIsLeft
  StoredIsAsked
