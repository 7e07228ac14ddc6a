SPECIFICATION Spec
CONSTANTS
  Rows <- TwoRows
  Titles = {login, logout}
  BatchSize = 1
  EarlyBy = 1
  Checkers = {screen}
  UploadBesideCheck = TRUE
  Timeouts = TRUE
  LateAfterError = FALSE
  LateAfterCheck = FALSE
  MaxCases = 3
  MaxUploads = 2
  MaxEdits = 1
  MaxColleague = 0
SYMMETRY TitleSymmetry
INVARIANTS
  NeverAnEarlierCase
CHECK_DEADLOCK FALSE
