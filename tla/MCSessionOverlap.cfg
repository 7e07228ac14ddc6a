SPECIFICATION Spec
CONSTANTS
  Calls = {c1, c2}
  Parts = 2
  Lengths = {0, 2}
  Overlap = TRUE
  ResumeAnytime = FALSE
  None = None
  MaxTokens = 3
  MaxSessions = 2
SYMMETRY CallSymmetry
INVARIANTS
  SignedOutForGood
CHECK_DEADLOCK FALSE
