CONSTANTS
  Workers = {w1, w2}
  Clients = {c1, c2}
  Roots = {r1, r2}
  Followers = {l1, l2}
  MaxOps = 2
  MaxTimeouts = 1
  MaxFailures = 1
  NoThread = NoThread
  None = None
SPECIFICATION Spec
SYMMETRY Symmetry
INVARIANTS RunOnce TokensExact NoListenerMissed ArgsReady GetReturnsResult
CHECK_DEADLOCK FALSE
