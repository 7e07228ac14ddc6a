SPECIFICATION CallsSpec
CONSTANTS
  Parts = {"flight", "pace", "loop"}
  Asks = {a1, a2}
  Keys = {near, far}
  NoKey = NoKey
  None = None
  MaxRequests = 3
  Gaps = {0, 2}
  Delays = {1, 3}
  MaxBackoff = 2
  MaxTime = 3
  Titles = {login, logout}
  Ids = {11, 12, 13, 14}
  MaxCreates = 4
  Texts = {TextA, TextB}
  TextA = TextA
  TextB = TextB
  Draft <- ThreeCases
  Removed = Removed
  MaxEdits = 2
  MaxMishaps = 1
INVARIANTS
  OneWorkPerKey
  NeverAnsweredFromThePast
  Spaced
  HoldsAreKept
  LoopComputesPairs
PROPERTIES
  EveryAskEnds
CHECK_DEADLOCK FALSE
