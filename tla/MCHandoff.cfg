SPECIFICATION Spec
CONSTANTS
  h1 = h1
  h2 = h2
  p1 = p1
  p2 = p2
  None = None
  ByHand = {h1}
  Handoffs = {h1}
  Procs = {p1, p2}
  Plan <- OneSlice
  MaxNoProgress = 0
  Crashes = 3
INVARIANT ExecutedOnce
INVARIANT EvidenceTrue
PROPERTY ReportsStand
PROPERTY RefinesOutcome
SYMMETRY Same
\* A campaign that has ended is not taken up again.
CHECK_DEADLOCK FALSE
