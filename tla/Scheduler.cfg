SPECIFICATION Spec
CONSTANTS
  Values = {v1, v2}
  Candidates = {v2}
  Pipes = {a, b, c}
  Shaped = {a, b}
  Hours = 2
  Night = 0
  Window = {0}
  Days = 2
  AutoPromote = TRUE
  Nobody = Nobody
  Faults = 2
INVARIANTS HomeWithoutExperiment TrialsAreTrue ShapingComesBack NightIsNotMissed
