SPECIFICATION FairSpec
CONSTANTS
  Conns = {c1, c2}
  Names = {n1, n2}
  None = None
  Upstream = "register"
  Faults = {"eof", "error", "garbled", "panic"}
  Capacity = 1
  MaxPackets = 2
CHECK_DEADLOCK FALSE
INVARIANTS TypeOK PulledOnce NoPoisonedEntry RestIsClean
PROPERTY NobodyWaits
