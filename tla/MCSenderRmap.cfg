CONSTANTS
  N = 5
  QUEUE_LEN = 2
  Fit = 2
  Horizon = 2
  Window = 2
  MaxRec = 4
  MaxFail = 0
  MaxCrashes = 0
SPECIFICATION Spec
INVARIANT FlaggedOnlyIfAcknowledged
