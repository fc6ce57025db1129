CONSTANTS
  Elapsed = {1, 3}
  Table = 2
  Bus = {0, 1}
  Size = 5
  Data = 1
  Garbled = {0, 2, 255}
SPECIFICATION FairSpec
PROPERTIES OwnAnswersOnly Recovers EveryModuleIsPolled
