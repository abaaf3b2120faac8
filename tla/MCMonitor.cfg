SPECIFICATION FairSpec
CONSTANTS
  Hosts = {h1, h2}
  Urls = {h1}
  Apps = {a1, a2}
  Clients = {k1}
  Faults = {"panic", "crash", "restart", "request"}
  MaxChanges = 1
  MaxQueue = 3
INVARIANT TypeOK
PROPERTIES ShownIsRecent RunningIsShown
CHECK_DEADLOCK FALSE
