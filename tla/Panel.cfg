SPECIFICATION PanelSpec
CONSTANTS
  Channels = {c1}
  Procs = {p1, p2}
  Runs = {r1}
  NoProc = NoProc
  NoRun = NoRun
  FormatOf = "hls"
  ModeOf = "live"
  Format <- AllFormats
  Mode <- AllModes
  MovieLoop = TRUE
  Sources = 1
  MaxReconnect = 0
  MaxFfmpeg = 0
  SpawnOutcomes = {"ok", "invalid"}
  MaxDelayed = 1
  MaxDetect = 1
  RetryLimit = 2
  MaxCooldowns = 2
  CustomerLines = {l1}
  SavedKeys = {"streaming_ingest_style"}
  Rows = {m1, m2}
  NoRow = NoRow
  MaxClicks = 2
  MaxElsewhere = 1
INVARIANTS
  ShadowEntriesAreLive
  ServingIsReady
  NoForeignWrites
PROPERTIES
  PhantomsCleared
  SettingsKept
CHECK_DEADLOCK FALSE
