CONSTANTS
  PAGE = 5
  PB = 5
  PE = 15
  Lengths = {2, 3}
  Chunk = 2
  MaxSaid = 4
  MaxFail = 1
  MaxCrashes = 2
SPECIFICATION Spec
INVARIANTS TypeOK RestartFindsTheLog DeliversWholeStrings NothingIsLost
CHECK_DEADLOCK FALSE
