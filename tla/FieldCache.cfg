SPECIFICATION CacheSpec
CONSTANTS
  Callers = {c1, c2}
  Profile = profile
  Spelling = spelling
  Unstamped = unstamped
  Asked = {profile}
  NoField = NoField
  NoRow = NoRow
  NoCaller = NoCaller
  MaxRuns = 3
  MaxWrites = 3
  MaxPublishes = 1
  MaxRaises = 1
INVARIANTS NobodyWaitsForNothing
PROPERTIES RollupIsCurrent FieldIsCurrent
SYMMETRY CallerSymmetry
