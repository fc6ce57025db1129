CONSTANTS
  Chans = {c0, c1}
  Second = 3
  Bounce = 2
  Width = 4
  MaxNow = 8
SPECIFICATION Spec
INVARIANTS TypeOK CountedOnce DamageIsBounded
CHECK_DEADLOCK FALSE
