SPECIFICATION FairSpec
CONSTANTS
  Reader = {p1, p2}
  Char = {"a"}
  Size = {2}
  INPUT_BUF = 3
  WRAP = 6
  None = None
INVARIANTS
  NoLostWakeup
PROPERTIES
  ConsoleIsLineInput
  FullRingDrains
