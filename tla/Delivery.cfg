SPECIFICATION DeliverySpec
CONSTANTS
  Clients = {v1, v2, v3}
  Broadcasts = {b1, b2}
  NoBroadcast = NoBroadcast
  Timers = {t1, t2}
  NoTimer = NoTimer
  Prebuffer = TRUE
  LiveIds = {11}
  MovieIds = {1, 2}
  SeriesIds = {1}
  BouquetIds = {d1}
  Subscriptions = {{}, {d1}}
  BatchSize = 1
  MaxEdits = 2
  MovieRows = {1}
  SeriesRows = {1}
  TmdbIds = {7, 8}
  Missing = {8}
  Plotless = {}
  SyncLimit = 2
  ResyncLimit = 1
  MaxEntries = 1
  MaxChanges = 1
  MaxFailures = 1
INVARIANTS
  OutputHasTaker
  ViewersAreFed
  ListedPlays
  NothingMissed
PROPERTIES
  AbandonedIsReaped
  EveryTitleIsFilled
CHECK_DEADLOCK FALSE
