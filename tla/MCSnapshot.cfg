CONSTANTS
  SIZE = 4
  MaxDuring = 1
  MaxSnap = 8
  MaxFail = 1
SPECIFICATION FairSpec
INVARIANTS TypeOK ArchivedOnceInOrder WholeUnlessFull NoSilentLoss
PROPERTY ArchivedBeforeLong
CHECK_DEADLOCK FALSE
