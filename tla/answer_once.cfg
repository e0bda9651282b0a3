SPECIFICATION Spec
CONSTANTS
  MaxHops = 8
  MaxOffset = 12
  MaxJumps = 2
  UdpMinSize = 9
  EdnsBufsize = 12
  UdpSizes = {0, 3, 8, 20}
  Databases <- MCDatabases
  Questions <- MCQuestions
  TsigKeys <- MCTsigKeys
  ClientKeys <- MCClientKeys
  Fudge = 1
INVARIANTS ReferralsAreExact DenialsAreTrue AnswersFormAChain MessagesDecode DatagramsAreWhole SignedIsAuthentic
PROPERTY AlwaysReturns
CHECK_DEADLOCK FALSE
