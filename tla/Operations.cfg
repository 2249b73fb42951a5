SPECIFICATION OperationsSpec
CONSTANTS
  Servers = {s1, s2}
  NoServer = NoServer
  Panel = Panel
  Admins = {a1, a2}
  Rows = {s1, s2}
  Agents = {s1}
  Jobs = {1, 2}
  Profiles = {"origin", "proxy"}
  NoProfile = NoProfile
  NoJob = NoJob
  Tasks = {t1, t2}
  Keep = 1
  MaxBackups = 4
  Purchases = {q1, q2}
  Corrections = {k1}
  Costs = {0, 1, 2}
  Balances <- SomeBalances
  Opening = 2
  MaxKinds = 2
  GoodScans = 2
  MaxPending = 1
INVARIANTS
  LiveGoesToEnabled
  EnabledIsEarned
  PruneSparesNewest
  PurchasesLeaveNoDebt
  SettingsComeBack
CHECK_DEADLOCK FALSE
