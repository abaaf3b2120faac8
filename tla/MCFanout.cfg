SPECIFICATION FairSpec
CONSTANTS
  FullGop = TRUE
  NoPacket = NoPacket
  Players = {q1}
  Capacity = 1
  MaxPackets = 4
  Shapes <- StreamShapes
CHECK_DEADLOCK FALSE
INVARIANTS TypeOK CacheFollowsHistory NoGap Decodable
PROPERTIES InitAnswered PlayersReleased
