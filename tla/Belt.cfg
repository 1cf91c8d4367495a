SPECIFICATION Spec
CONSTANTS
  Profiles = {p, q, r}
  NoOne = NoOne
  NoMatch = NoMatch
  Margins <- MCMargins
  Rules <- MCRules
  MinPairs = 3
  MaxPairs = 5
  WinStep = 588
  LossStep = 1609
  Boundary = 1386
  Alpha <- MCAlpha
  ZSquared <- MCZSquared
  Window = 1
  MaxRounds = 5
  MaxRecords = 3
  MaxSessions = 2
SYMMETRY Symmetry
CHECK_DEADLOCK FALSE
INVARIANTS SidesAreAlike MatchesEnd
PROPERTIES BeltIsLostInTheRing
