SPECIFICATION ReloadSpec
CONSTANTS
  Origin <- O
  Contents <- MCContents
  Entries <- MCEntries
  Labels <- MCLabels
  Numerals <- MCNumerals
INVARIANTS PlainZonesSurvive EntriesComeBack
PROPERTY ReadingIsStable
CHECK_DEADLOCK FALSE
