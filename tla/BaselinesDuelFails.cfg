SPECIFICATION Spec
CONSTANTS
  Engines = {"duel", "profile_test"}
  NoEngine = NoEngine
  User = User
  Winner = Winner
  NoBaseline = NoBaseline
  Failing = {"duel"}
  AutoPromote = FALSE
  Untimely = FALSE
  MaxCrashes = 0
INVARIANTS HomeWhenIdle
