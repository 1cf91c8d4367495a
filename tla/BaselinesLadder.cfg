SPECIFICATION FairSpec
CONSTANTS
  Engines = {"sweep", "profile_test", "challenge", "refresh", "duel"}
  NoEngine = NoEngine
  User = User
  Winner = Winner
  NoBaseline = NoBaseline
  Failing = {"sweep", "profile_test", "refresh", "challenge"}
  AutoPromote = TRUE
  Untimely = FALSE
  MaxCrashes = 2
INVARIANTS HomeWhenIdle RecoveryLeadsHome MeasuresWhatItApplied
PROPERTIES ComesHome
