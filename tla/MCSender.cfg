CONSTANTS
  N = 5
  QUEUE_LEN = 2
  Fit = 2
  Horizon = 3
  Window = 1
  MaxRec = 5
  MaxFail = 1
  MaxCrashes = 1
SPECIFICATION FairSpec
INVARIANTS SentMeansReceived NoNeedlessRepeats WalksFromTheRing
PROPERTY EveryRecordArrives
