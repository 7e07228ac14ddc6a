SPECIFICATION DraftsSpec
CONSTANTS
  Parts = {"drafts"}
  Asks = {a1}
  Keys = {near}
  NoKey = NoKey
  None = None
  MaxRequests = 3
  Gaps = {0, 2}
  Delays = {1, 3}
  MaxBackoff = 2
  MaxTime = 3
  Titles = {login, logout}
  Ids = {11, 12, 13, 14}
  MaxCreates = 4
  Texts = {TextA, TextB}
  TextA = TextA
  TextB = TextB
  Draft <- ThreeCases
  Removed = Removed
  MaxEdits = 2
  MaxMishaps = 1
INVARIANTS
  DraftsTyped
  TwinsKeepApart
PROPERTIES
  ChangesAreTaken
CHECK_DEADLOCK FALSE
