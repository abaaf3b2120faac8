SPECIFICATION FairSpec
CONSTANTS
  Names = {n1}
  Origins = {o1}
  Clients = {c1}
  None = None
  Timeout = 2
  MaxQueue = 1
  Queries = {"GetServers", "GetAppsMap"}
  Faults = {"loss", "crash", "send", "receive", "panic"}
PROPERTIES FoundAgain EndedIsForgotten Listening
