SPECIFICATION Spec
CONSTANTS
  r1 = r1
  r2 = r2
  c1 = c1
  Worker = worker
  None = None
  Runs <- OneRun
  Callers <- OneCaller
  Serialised = FALSE
  Crashes = 0
INVARIANT StopHonoured
\* All runs over and no request made: the queue rests.
CHECK_DEADLOCK FALSE
