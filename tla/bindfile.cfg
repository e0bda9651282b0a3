SPECIFICATION Spec
CONSTANTS
  Writers = {w1, w2}
  Requests <- AllRequests
  InitZones <- MCZones
  Labels <- MCLabels
  Numerals <- MCNumerals
  SerialMod = 4
  MaxWrites = 3
  MaxCrashes = 2
INVARIANTS DiskIsMemory ConfNeverDangles CrashLeavesOldOrNew StartsAgain AcknowledgedStay
CHECK_DEADLOCK FALSE
