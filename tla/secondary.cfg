SPECIFICATION Spec
CONSTANTS
  InitPrimary <- MCPrimary
  InitSecondary <- MCSecondaryZones
  Updates <- MCUpdates
  LocalRecords <- MCLocal
  Clients = {c1}
  Split = {0, 1}
  MaxAnswers = 3
  MaxChanges = 1
  MaxFaults = 1
INVARIANTS  CachedIsCurrent
PROPERTY Converges
