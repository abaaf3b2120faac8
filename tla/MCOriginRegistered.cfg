SPECIFICATION FairSpec
CONSTANTS
  Conns = {c1, c2}
  Names = {n1, n2}
  None = None
  WithRegister = TRUE
  Faults = {}
  Capacity = 1
  MaxPackets = 1
CHECK_DEADLOCK FALSE
PROPERTY EveryPublisherRegistered
