SPECIFICATION FairSpec
CONSTANTS
  NPROC = 3
  CPU = {c1, c2}
  KillPid = {3}
  MAXPID = 4
INVARIANTS
  NoMissedExit
  OneCpuPerProcess
PROPERTIES
  NoStarvation
  OrphanReaped
  KilledExits
CHECK_DEADLOCK FALSE
