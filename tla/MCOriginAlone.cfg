SPECIFICATION Spec
CONSTANTS
  Conns = {c1, c2, c3}
  Names = {n1, n2}
  None = None
  WithRegister = FALSE
  Faults = {}
  Capacity = 1
  MaxPackets = 1
SYMMETRY Symmetry
CHECK_DEADLOCK FALSE
INVARIANTS RestIsClean
