SPECIFICATION Spec
CONSTANTS
  NPROC = 5
  CPU = {c1}
  KillPid = {}
  MAXPID = 6
INVARIANT OneShell
CHECK_DEADLOCK FALSE
