SPECIFICATION Spec
CONSTANTS
  p1 = p1
  p2 = p2
  p3 = p3
  h1 = h1
  h2 = h2
  c1 = c1
  code = code
  env = env
  None = None
  Procs = {p1, p2, p3}
  Hosts = {h1, h2}
  HostOf <- TwoOnOne
  Cands = {c1}
  Paths = {code, env}
  EnvPath = env
  Elsewheres = 1
  Crashes = 1
INVARIANT AuditIsTrue
PROPERTY CompatNeverRegresses
PROPERTY RefinesLedger
SYMMETRY Same
\* Every invocation has ended and nobody starts another.
CHECK_DEADLOCK FALSE
