SPECIFICATION Spec
CONSTANTS
  Channels = {c1}
  Procs = {p1, p2}
  Runs = {r1, r2}
  NoProc = NoProc
  NoRun = NoRun
  FormatOf = "mpegts"
  ModeOf = "live"
  Format <- AllFormats
  Mode <- AllModes
  MovieLoop = TRUE
  Sources = 1
  MaxReconnect = 0
  MaxFfmpeg = 0
  SpawnOutcomes = {"ok"}
  MaxDelayed = 0
  MaxDetect = 1
  Hls = {}
SYMMETRY Symmetry
PROPERTIES
  StopLeavesNothing
CHECK_DEADLOCK FALSE
