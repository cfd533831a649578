SPECIFICATION FairSpec
CONSTANTS
  Writer = {w1, w2}
  Reader = {r1}
  Byte = {0, 1}
  Message <- ShortLong
  N = 2
  PIPESIZE = 2
  WRAP = 4
  None = None
INVARIANTS
  NoLostWakeup
  NoUseAfterFree
PROPERTIES
  PipeIsStream
  CallsReturn
CHECK_DEADLOCK FALSE
