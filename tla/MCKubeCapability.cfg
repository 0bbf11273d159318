SPECIFICATION Spec
CONSTANTS
  a1 = a1
  a2 = a2
  g1 = g1
  g2 = g2
  None = None
  Attempts = {a1, a2}
  Grants = {g1, g2}
  Changes = 1
  Crashes = 1
  Lapses = 1
INVARIANT OneChangePerGrant
INVARIANT PassIsOwn
INVARIANT SettledEndsGrant
SYMMETRY Same
\* Every attempt has ended and every grant is over.
CHECK_DEADLOCK FALSE
