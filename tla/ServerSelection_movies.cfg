SPECIFICATION SelFairSpec
CONSTANTS
  Servers = {s1}
  NoServer = NoServer
  Panel = Panel
  Admins = {}
  Rows = {s1}
  Agents = {s1}
PROPERTIES
  MoviesAnswered
CHECK_DEADLOCK FALSE
