SPECIFICATION Spec
CONSTANTS
  Names = {n1}
  Origins = {o1, o2}
  Clients = {c1}
  None = None
  Timeout = 2
  MaxQueue = 1
  Queries = {}
  Faults = {"loss", "duplicate", "crash", "send", "panic"}
SYMMETRY Symmetry
INVARIANTS TypeOK HolderIsServer
PROPERTY ImplementsLeases
