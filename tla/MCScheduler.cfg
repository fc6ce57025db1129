CONSTANTS
  Period <- MCPeriod
  Jumps <- MCJumps
  Early = 1
  Retry = 1
  RetryLong = 2
  Base = 2
  Back = 3
  GuardLimit = 1
  MaxRef = 2
SPECIFICATION FairSpec
INVARIANTS TypeOK BearerUpWhileSending BearerReleased
PROPERTIES ResetOnlyIfHung EveryRequestIsServed KeepsSending
