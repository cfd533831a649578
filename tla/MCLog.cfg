SPECIFICATION FairSpec
CONSTANTS
  Op = {p1, p2}
  Block = {b1, b2}
  Data = {0, 1}
  NoData = NoData
  Zero = 0
  Format <- Formatted
  MAXOPBLOCKS = 3
  LOGSIZE = 6
  NLOG = 6
  OPBLOCKS = 2
INVARIANTS
  DurableWhenIdle
PROPERTIES
  AtomicCommit
  CallsGoOn
