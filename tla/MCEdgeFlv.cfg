SPECIFICATION Spec
CONSTANTS
  Conns = {c1, c2, c3}
  Names = {n1}
  None = None
  Kinds = {"publisher", "http"}
  Faults = {}
  Capacity = 1
  MaxPackets = 1
SYMMETRY Symmetry
INVARIANT FlvHeaded
CHECK_DEADLOCK FALSE
