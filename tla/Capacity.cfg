SPECIFICATION CapacitySpec
CONSTANTS
  Channels = {c1, c2}
  Procs = {p1, p2}
  Runs = {r1, r2}
  NoProc = NoProc
  NoRun = NoRun
  FormatOf = "mpegts"
  ModeOf = "live"
  Format <- AllFormats
  Mode <- AllModes
  MovieLoop = TRUE
  Sources = 1
  MaxReconnect = 1
  MaxFfmpeg = 1
  SpawnOutcomes = {"ok"}
  MaxDelayed = 0
  MaxDetect = 0
  Hls = {}
  Users = {u1, u2}
  Codes = {k1, k2}
  Names = {"admin", "desk"}
  AllowRegister = TRUE
  MaxRequests = 3
  MaxEdits = 1
  PlayUsers = {x1}
  Tokens = {t1, t2, t3}
  LimitOf <- TwoStreams
  DefaultMax = 3
  TtlSeconds = 1
  MaxClock = 2
  MaxStarts = 1
  None = None
SYMMETRY Symmetry
INVARIANTS
  OnlyReconnectsExceed
  ServedOnOwnPortal
  SessionsBounded
CHECK_DEADLOCK FALSE
