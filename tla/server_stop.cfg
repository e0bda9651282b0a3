SPECIFICATION Spec
CONSTANTS
  WorkerThreads = {1, 2}
  BatchPerThread = 1
  MaxTcpSessions = 1
  EnableApi = TRUE
  MaxThreads = 2
PROPERTY StopReturns
CHECK_DEADLOCK FALSE
