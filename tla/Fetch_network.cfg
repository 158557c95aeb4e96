CONSTANTS
  w1 = w1  w2 = w2
  Worker = {w1, w2}
  Orphan = Orphan
  Process <- Processes
  NoClient = NoClient
  Takes <- TakesOf
  Insp = {i1}
  NoInsp = NoInsp
  MaxPending = 1
  MaxMessages = 1
  Conn = {c1, c2}
  MaxConnections = 1
SPECIFICATION FairSpec
INVARIANTS FetchTypeOK NothingLeftAfterStop OneExecutor
PROPERTIES LimitLifts TunnelsFollow
CHECK_DEADLOCK FALSE
