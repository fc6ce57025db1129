CONSTANTS
  PB = 4
  PE = 24
  S = 3
  PAGE = 4
  Batch = 2
  MaxRec = 14
  MaxCrashes = 3
SPECIFICATION Spec
INVARIANTS CrashSpoilsAtMostABatch SavedRecordsAreDurable
CHECK_DEADLOCK FALSE
