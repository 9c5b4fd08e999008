SPECIFICATION FairSpec
CONSTANTS
  Threads = {t1, t2}
  Closer = closer
  Nobody = nobody
  NoPool = NoPool
  PoolSize = 1
  MaxCloses = 1
  MaxJobs = 2
  MAX_REDIRECTS = 1
INVARIANTS
  TypeOK
  NoPoolLeaks
  ClosedOnlyMeanwhile
  TableBeforeUse
  ReachesValidated
  PinIsTemporary
PROPERTIES
  JobsEnd
\* The threads stop when they have run their MaxJobs tools.
CHECK_DEADLOCK FALSE
