SPECIFICATION FairSpec
CONSTANTS
  r1 = r1
  r2 = r2
  c1 = c1
  Worker = worker
  None = None
  Runs <- TwoRuns
  Callers <- OneCaller
  Serialised = TRUE
  Crashes = 2
INVARIANT TypeOK
INVARIANT ExecutedAsReported
INVARIANT StoresAgree
INVARIANT OneLiveProcess
PROPERTY ImplementsQueueSlot
PROPERTY EveryTaskSettles
\* All runs over and no request made: the queue rests.
CHECK_DEADLOCK FALSE
