SPECIFICATION MCSpec
CONSTANTS
  p1 = p1
  p2 = p2
  Proc <- MCProc
  NINODES = 4
  Name = {"a", "b"}
  Call <- MCCall
  Crashes = TRUE
  MAXLINK = 2
  None = None
  CPU = {c1, c2}
INVARIANTS
  RefsExact
  LinksExact
  NoDanglingEntry
  FreesAlone
  CacheCoherent
  LocksMatched
  NoLockCycle
CHECK_DEADLOCK FALSE
