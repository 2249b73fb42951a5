SPECIFICATION OdSpec
CONSTANTS
  Channels = {c1}
  Procs = {p1, p2, p3}
  Runs = {r1, r2}
  NoProc = NoProc
  NoRun = NoRun
  FormatOf = "mpegts"
  ModeOf = "live"
  Format <- AllFormats
  Mode <- AllModes
  MovieLoop = TRUE
  Sources = 1
  MaxReconnect = 1
  MaxFfmpeg = 1
  SpawnOutcomes = {"ok", "fails", "invalid"}
  MaxDelayed = 0
  MaxDetect = 1
  Callers = {v1, v2}
  Administrators = FALSE
SYMMETRY Symmetry
INVARIANTS
  NoOrphan
  EveryTimerCancellable
PROPERTIES
  OneEngine
CHECK_DEADLOCK FALSE
