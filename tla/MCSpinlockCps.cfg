SPECIFICATION Spec
CONSTANTS
  CPU = {c1, c2}
  Call <- Printing
  Handler <- Interrupts
  None = None
INVARIANT NoLockCycle
