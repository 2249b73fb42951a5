SPECIFICATION EngineAndDelaySpec
CONSTANTS
  Channels = {c1}
  Procs = {p1, p2, p3}
  Runs = {r1, r2}
  NoProc = NoProc
  NoRun = NoRun
  FormatOf = "mpegts"
  ModeOf = "movie"
  Format <- AllFormats
  Mode <- AllModes
  MovieLoop = TRUE
  Sources = 2
  MaxReconnect = 1
  MaxFfmpeg = 0
  SpawnOutcomes = {"ok", "fails", "invalid"}
  MaxDelayed = 0
  MaxDetect = 1
  Hls = {}
  SegTimes = {2, 3}
  MinSeg = 2
  MaxSeg = 3
  Delays = {5, 6, 8}
  UserList = 2
  Margin = 2
  MaxList = 8
  Stretch = 2
SYMMETRY Symmetry
INVARIANTS
  CancelledRunsInert
  PipeEntriesAreLive
  StartingIsUnderWay
  TrailsWhenFull
CHECK_DEADLOCK FALSE
