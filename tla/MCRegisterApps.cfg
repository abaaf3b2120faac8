SPECIFICATION Spec
CONSTANTS
  Names = {n1}
  Origins = {o1}
  Clients = {c1}
  None = None
  Timeout = 2
  MaxQueue = 2
  Queries = {"GetAppsMap"}
  Faults = {"crash"}
INVARIANT AppsAreAlive
