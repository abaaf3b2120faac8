SPECIFICATION FairSpec
CONSTANTS
  Conns = {c1, c2}
  Names = {n1}
  None = None
  Kinds = {"publisher", "http", "rtmp"}
  Faults = {"vanish", "origin", "eof"}
  Capacity = 1
  MaxPackets = 1
CHECK_DEADLOCK FALSE
INVARIANTS TypeOK NoOrphanChannel NoPoisonedEntry
PROPERTIES Answered StreamEnds FailsAlone
