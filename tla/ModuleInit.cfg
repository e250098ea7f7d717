SPECIFICATION FairSpec
CONSTANTS
  Threads = {t0, t1, t2}
  Main = t0
  None = None
  Modules <- MCModules
  Programs <- MCPrograms
INVARIANTS
  HeldByLoops Prepared ArgumentKept StuckOnlyBehindABody
PROPERTIES
  Finishes
