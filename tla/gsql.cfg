SPECIFICATION Spec
CONSTANTS
  Writers = {w1, w2}
  Dialects = {"sqlite", "pgsql"}
  Requests <- MCRequests
  InitZones <- MCZones
  SerialMod = 4
  MaxRequests = 3
  MaxFaults = 1
INVARIANTS NoOrphans RecordsStayHome
PROPERTIES ConfirmedIsWritten KeepsPromise
SYMMETRY Sym
CHECK_DEADLOCK FALSE
