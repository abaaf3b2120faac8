SPECIFICATION FairSpec
CONSTANTS
  Conns = {c1, c2, c3}
  Names = {n1}
  None = None
  WithRegister = TRUE
  Faults = {"connect"}
  Capacity = 1
  MaxPackets = 1
CHECK_DEADLOCK FALSE
INVARIANTS TypeOK NoOrphanChannel NoPoisonedEntry SnapshotExact PublisherHeard
PROPERTIES Answered StreamEnds
