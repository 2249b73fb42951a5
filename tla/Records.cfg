SPECIFICATION RecordsSpec
CONSTANTS
  Servers = {s1, s2}
  NoServer = NoServer
  Admins = {a1, a2}
  Rows = {s1, s2}
  Agents = {s1}
  ImportJobs = {1, 2}
  Groups = {"movies"}
  Entries = {1, 2}
  UrlOf <- OneUrl
  Workers = 2
  Titles = {1, 2}
  Bouquets = {b1}
  Saves = {v1, v2}
  Lines = {l1}
  Pages = {p1, p2}
  Sweeps = {w1, w2}
  MaxTime = 2
  Durations = {0, 1}
  Urls = {"hls", "dash"}
  Edits = {e1}
  Bodies <- ShortBodies
  ProfileIds = {"p1"}
  NoProfile = NoProfile
  NoChannel = NoChannel
INVARIANTS
  OneMain
  NoNeedlessCopies
  ImportsReachBouquet
  MembershipKept
  SweptAreDue
  StoredChannelsRun
CHECK_DEADLOCK FALSE
