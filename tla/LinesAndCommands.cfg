SPECIFICATION LinesAndCommandsSpec
CONSTANTS
  Commands = {k1, k2, k3}
  NoCommand = NoCommand
  Limit = 2
  Viewers = {w1, w2, w3}
  MaxConnections = 1
  Concurrent = 2
INVARIANTS
  AtMostOnce
  ReportsEarned
  OvershootBounded
PROPERTIES
  QueuedGetsLeased
  FullLineFrees
CHECK_DEADLOCK FALSE
