SPECIFICATION Spec
CONSTANTS
  Calls = {c1, c2}
  Parts = 2
  Lengths = {0, 2}
  Overlap = FALSE
  ResumeAnytime = FALSE
  None = None
  MaxTokens = 3
  MaxSessions = 2
SYMMETRY CallSymmetry
INVARIANTS
  SignedOutForGood
  KeptIsCurrent
  OneRefreshForAll
PROPERTIES
  RefreshKeepsSession
CHECK_DEADLOCK FALSE
