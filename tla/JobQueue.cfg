SPECIFICATION FairQueueSpec
CONSTANTS
  Kinds = {sweep, duel}
  Duel = duel
  MaxJobs = 3
  MaxCrashes = 1
  MaxOutside = 1
CHECK_DEADLOCK FALSE
INVARIANTS OldestFirst PendingRowsAreTickets
PROPERTIES CancelledNeverRuns TicketsMoveOn
