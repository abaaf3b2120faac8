SPECIFICATION FairSpec
CONSTANTS
  Streams = {1, 2}
  Media <- MCMedia
  Faults = {"write", "manager", "channel", "join", "bytes"}
  MaxMessages = 2
  MaxChunks = 4
  MaxLive = 1
INVARIANTS
  TypeOK ChannelsAccounted StreamIdKnown HeadersFirst RelayedUnchanged
PROPERTY SilentPeerLetGo
CHECK_DEADLOCK FALSE
