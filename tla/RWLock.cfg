CONSTANTS
  Threads = {t1, t2, t3}
  NoThread = NoThread
SPECIFICATION FairSpec
INVARIANTS Exclusion
PROPERTIES NoLostUnlock ImplementsReadersWriters ReadersServed WritersServedWhenReadersStop
