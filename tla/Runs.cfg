SPECIFICATION FairSpec
CONSTANTS
  MaxRuns = 2
  Iterations = 2
  MaxChunks = 2
  MaxCrashes = 1
  MaxMoves = 2
  Settings = {A, B}
  NoRun = NoRun
  Other = Other
INVARIANTS CancelledNotScored OneRunMeasures MeasuredOneSetting
PROPERTIES FailedStaysFailed RunsSettle
