SPECIFICATION FairSpec
CONSTANTS
  MaxStarts = 2
  CaseCount = 3
  Pauses = {1, 2}
  MaxReruns = 1
  MaxDrops = 1
INVARIANTS
  TypeOK
  PanelIsTakenOff
  EachCaseRecorded
PROPERTIES
  AnswerMeetsItsPause
  StopEnds
CHECK_DEADLOCK FALSE
