SPECIFICATION FairSpec
CONSTANTS
  Sessions = {duel, test, monitoring}
  Ring = {duel}
  Scheduler = monitoring
  NoSession = NoSession
  Watchdog = watchdog
  StaleAfter = 2
  SlowSeam = FALSE
INVARIANTS OneOwner EvictedRingStops
PROPERTIES ImplementsPipeline WedgedHolderIsDisowned LineKeepsMoving
