SPECIFICATION Spec
CONSTANTS
  Profiles = {p, q, r}
  Base = p
  NoProfile = NoProfile
  NoLeg = NoLeg
  Unusable = Unusable
  Alike = {{q, r}}
  Seats = 2
  Slots = 1
  MinPairs = 1
  MaxPairs = 2
  MaxBad = 2
  MaxMatches = 2
  MaxSessions = 2
  Lookback = 2
  MaxPublishes = 1
  Hazards = 2
SYMMETRY Symmetry
CHECK_DEADLOCK FALSE
INVARIANTS RoundsAreComparable PaidRoundsAreKept RecordedOnce
