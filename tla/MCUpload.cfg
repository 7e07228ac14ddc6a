SPECIFICATION Spec
CONSTANTS
  Rows <- TwoRows
  Titles = {login, logout}
  BatchSize = 1
  EarlyBy = 0
  Checkers = {screen}
  UploadBesideCheck = FALSE
  Timeouts = TRUE
  LateAfterError = FALSE
  LateAfterCheck = FALSE
  MaxCases = 3
  MaxUploads = 3
  MaxEdits = 2
  MaxColleague = 0
SYMMETRY TitleSymmetry
INVARIANTS
  TypeOK
  NoIdOnTwoRows
  NothingForgotten
PROPERTIES
  HeldRowsAreNotSent
CHECK_DEADLOCK FALSE
