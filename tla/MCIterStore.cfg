CONSTANTS
  Capacity = 3
  Batch = 2
  MaxPos = 6
  MaxCrashes = 3
  MaxSaves = 4
SPECIFICATION IterSpec
INVARIANT SavedIteratorsUsable
PROPERTIES SlotsDoNotInterfere ImplementsIterPair
CHECK_DEADLOCK FALSE
