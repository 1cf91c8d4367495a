SPECIFICATION Spec
CONSTANTS
  Pipes = {down, up}
  Values = {a, b}
  MaxSessions = 2
  MaxLosses = 3
CHECK_DEADLOCK FALSE
INVARIANTS OkIsOnTheShaper ReturnedIsStored AllOrNothing
