SPECIFICATION Spec
CONSTANTS
  t1 = t1
  t2 = t2
  h1 = h1
  h2 = h2
  k1 = k1
  k2 = k2
  Threads <- MCThreads
  Hosts <- MCHosts
  Keys <- MCKeys
  Ttls <- MCTtls
  Rate = 1
  CacheTtl = 0
  MaxEntries = 1
  Second = 2
  MaxTime = 5
  Nothing = Nothing
INVARIANTS NeverTwiceTheRate RefusedAtTheRate
PROPERTY HitsAreFresh
CHECK_DEADLOCK FALSE
SYMMETRY Sym
