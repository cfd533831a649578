SPECIFICATION Spec
CONSTANTS
  new = new
  old = old
  k4 = k4
  k3 = k3
  k2 = k2
  k1 = k1
  b3 = b3
  b2 = b2
  b1 = b1
  q = q
  p = p
  Proc = {p, q}
  Buf = {b1, b2, b3}
  Block = {k1, k2, k3, k4}
  Data = {old, new}
  Blank = old
  None = None
  MAXPIN = 2
  IdeErrors = FALSE
SYMMETRY Interchangeable
INVARIANTS
  ReadsLatest
  OneBuffer
  RequestsOwned
