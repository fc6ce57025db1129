CONSTANTS
  Posts = 2
  Cells = 2
  Checks = 2
  MaxLate = 2
  MaxBehind = 2
  MaxRefused = 2
SPECIFICATION CycleSpec
INVARIANTS CycleTypeOK SentIsStored RepeatsAreBounded InStep
PROPERTY EveryPostArrives
CHECK_DEADLOCK FALSE
