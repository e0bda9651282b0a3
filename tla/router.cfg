SPECIFICATION Spec
CONSTANTS
  Actors = {a1, a2}
  Launches <- MCLaunches
  InitNames <- MCNames
  Jobs <- MCJobs
  MaxJobs = 2
  MaxChanges = 2
SYMMETRY Sym
INVARIANTS CallsReachTheirZone SearchIsDeepest
PROPERTY ConfirmedIsThere
CHECK_DEADLOCK FALSE
