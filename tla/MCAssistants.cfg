SPECIFICATION MCSpec
CONSTANTS
  Agents = {session, sub}
  Named = {sub}
  Proxies = {session, sub}
  ProxyOf <- OneProxyEach
  Cases = {case}
  Calls = {c1, c2}
  Kinds = {"start", "replay", "end", "release", "act"}
  SlotCount = 2
  None = None
  Person = Person
  Grace = 1
  ForgetAfter = 1
  NamedHold = 1
  ClaimTimeout = 2
  IdleAfter = 2
  QuietAfter = 2
  MaxCalls = 2
  MaxDisturbances = 2
CHECK_DEADLOCK FALSE
SYMMETRY Symmetry
INVARIANTS
  TypeOK
  BoundOnce
PROPERTIES
  HoldKeepsSlot
  PersonsStays
  WorkerKeepsCase
