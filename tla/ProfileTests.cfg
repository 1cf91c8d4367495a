SPECIFICATION FairSpec
CONSTANTS
  MaxTests = 3
  None = None
  MaxCrashes = 1
  SlowCancel = FALSE
INVARIANTS RunsUnderThePipeline
PROPERTIES SettledStaysSettled TestsSettle
