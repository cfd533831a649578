SPECIFICATION Spec
CONSTANTS
  Op = {p1, p2, p3}
  Block = {b1, b2, b3}
  Data = {0}
  NoData = NoData
  Zero = 0
  Format <- Formatted
  MAXOPBLOCKS = 1
  LOGSIZE = 3
  NLOG = 3
  OPBLOCKS = 1
INVARIANT LogNeverOverflows
