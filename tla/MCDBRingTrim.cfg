CONSTANTS
  PB = 4
  PE = 20
  S = 3
  PAGE = 4
  Flags = {1}
  SkipCaps = {2, 4, 8}
  MaxRec = 12
SPECIFICATION Spec
PROPERTY AppendTrimsWhatItOverwrites
CHECK_DEADLOCK FALSE
