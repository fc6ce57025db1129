CONSTANTS
  PB = 4
  PE = 24
  S = 3
  PAGE = 4
  Flags = {1}
  SkipCaps = {2, 4, 8}
  MaxRec = 22
SPECIFICATION Spec
INVARIANTS TypeOK WalkBackFindsTheNewest KeepsWhatFits SearchEndsAtTheDate
PROPERTY ImplementsRecordLog
CHECK_DEADLOCK FALSE
