SPECIFICATION LlSpec
CONSTANTS
  Lines = {l1}
  Pages = {p1}
  Sweeps = {w1}
  MaxTime = 2
  Durations = {1}
INVARIANTS
  ExtendedLinePlays
CHECK_DEADLOCK FALSE
