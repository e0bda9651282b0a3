SPECIFICATION Spec
CONSTANTS
  Workers = {w1}
  Api = api
  Queries <- ChildQueries
  Updates <- ChildUpdates
  ApiRequests <- ChildRequests
  InitZones <- TwoZones
  MaxHops = 2
  CacheSize = 1
  CacheTtl = 0
  SerialMod = 2
  MaxChanges = 5
INVARIANTS CoherenceInv UnracedHitsCoherent
PROPERTY RequestsEnd
CHECK_DEADLOCK FALSE
