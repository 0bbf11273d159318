SPECIFICATION Spec
CONSTANTS
  p1 = p1
  p2 = p2
  b1 = b1
  b2 = b2
  b3 = b3
  b4 = b4
  b5 = b5
  b6 = b6
  b7 = b7
  None = None
  Processes <- TwoProcesses
  Bodies <- SevenBodies
  Serialised = TRUE
SYMMETRY BodySymmetry
INVARIANT TypeOK
INVARIANT KeyPairMatches
INVARIANT IndexIsPosition
INVARIANT CheckpointsConsistent
INVARIANT ReceiptProvesItsLeaf
\* A tlog-init killed between its two keys leaves nothing that may be done.
CHECK_DEADLOCK FALSE
