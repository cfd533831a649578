SPECIFICATION Spec
CONSTANTS
  Proc = {p, q}
  NFILE = 3
  NOFILE = 2
  Inode = {i}
  Page = {k}
  MAXOFF = 1
  None = None
SYMMETRY SameProcs
INVARIANTS
  RefsExact
  ChunksOnce
CHECK_DEADLOCK FALSE
