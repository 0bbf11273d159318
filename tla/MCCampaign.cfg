SPECIFICATION FairSpec
CONSTANTS
  h1 = h1
  h2 = h2
  p1 = p1
  p2 = p2
  None = None
  ByHand = {h1}
  Handoffs = {h1, h2}
  Procs = {p1}
  Plan <- TwoSlices
  MaxNoProgress = 0
  Crashes = 1
INVARIANT DispatchJournalled
INVARIANT DoneInOrder
PROPERTY Settles
\* A campaign that has ended is not taken up again.
CHECK_DEADLOCK FALSE
