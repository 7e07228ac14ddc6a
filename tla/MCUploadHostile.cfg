SPECIFICATION FairSpec
CONSTANTS
  Rows <- TwoRows
  Titles = {login}
  BatchSize = 2
  EarlyBy = 1
  Checkers = {screen}
  UploadBesideCheck = TRUE
  Timeouts = TRUE
  LateAfterError = FALSE
  LateAfterCheck = TRUE
  MaxCases = 3
  MaxUploads = 2
  MaxEdits = 1
  MaxColleague = 1
PROPERTIES
  IdsStick
  UploadEnds
CHECK_DEADLOCK FALSE
