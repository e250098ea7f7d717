CONSTANTS
  Workers = {w1, w2}
  Clients = {c1, c2}
  Roots = {r1, r2}
  Followers = {}
  MaxOps = 2
  MaxTimeouts = 0
  MaxFailures = 1
  NoThread = NoThread
  None = None
SPECIFICATION FairSpec
PROPERTIES TasksRun GetReturns
CHECK_DEADLOCK FALSE
