SPECIFICATION Spec
CONSTANTS
  Workers = {w1}
  Api = api
  Queries <- ChildQueries
  Updates <- NoRequests
  ApiRequests <- ChildRequests
  InitZones <- OneZone
  MaxHops = 8
  CacheSize = 2
  CacheTtl = 0
  SerialMod = 16
  MaxChanges = 2
INVARIANT CacheCoherentWhenIdle
