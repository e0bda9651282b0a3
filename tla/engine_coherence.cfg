SPECIFICATION Spec
CONSTANTS
  Workers = {w1, w2}
  Api = api
  Queries <- OneQueries
  Updates <- OneUpdates
  ApiRequests <- OnePatches
  InitZones <- OneZone
  MaxHops = 8
  CacheSize = 1
  CacheTtl = 0
  SerialMod = 2
  MaxChanges = 2
INVARIANTS UnracedEntriesCurrent LastUpdateNotified
PROPERTY UnracedSerialBumped
SYMMETRY Sym
