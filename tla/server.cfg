SPECIFICATION Spec
CONSTANTS
  WorkerThreads = {1, 2}
  BatchPerThread = 1
  MaxTcpSessions = 1
  EnableApi = TRUE
  MaxThreads = 3
INVARIANTS SessionsBounded UdpHandlersBounded ClearsOnlyJoined NothingLeftRunning InlineIsSafe
CHECK_DEADLOCK FALSE
