SPECIFICATION FairSpec
CONSTANTS
  old = old
  k2 = k2
  k1 = k1
  b2 = b2
  b1 = b1
  q = q
  p = p
  r = r
  Proc = {p, q, r}
  Buf = {b1, b2}
  Block = {k1, k2}
  Data = {old}
  Blank = old
  None = None
  MAXPIN = 1
  IdeErrors = TRUE
PROPERTY BreadReturns
