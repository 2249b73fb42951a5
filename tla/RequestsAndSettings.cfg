SPECIFICATION AnswerSpec
CONSTANTS
  Channels = {c1}
  Procs = {p1, p2}
  Runs = {r1, r2}
  NoProc = NoProc
  NoRun = NoRun
  FormatOf = "mpegts"
  ModeOf = "live"
  Format <- AllFormats
  Mode <- AllModes
  MovieLoop = TRUE
  Sources = 1
  MaxReconnect = 0
  MaxFfmpeg = 1
  SpawnOutcomes = {"ok"}
  MaxDelayed = 0
  MaxDetect = 0
  Callers = {v1, v2}
  Administrators = TRUE
  Env <- NoEnv
  MoreFlags <- NoFlags
  Edits <- SizeEdits
  MaxSaves = 1
  MaxErrors = 1
  MaxTimers = 1
PROPERTIES
  RequestsAnswered
  StartSettles
  SettingsTakeEffect
CHECK_DEADLOCK FALSE
