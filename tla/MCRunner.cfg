\* One granted file and another one; two turns, extended by two and by one; a tool call in a turn.
CONSTANTS
  granted = granted
  other = other
  Paths <- MCPaths
  Granted <- MCGranted
  Contents <- MCContents
  Head = "head"
  Base = 2
  Increment = 2
  MaxExtensions = 2
  Absolute = 5
  StallReads = 1
  CallsPerTurn = 1
SPECIFICATION Spec
INVARIANTS TurnsBounded ExtensionsEarned CompletedWithinGrant
PROPERTIES  Ends
