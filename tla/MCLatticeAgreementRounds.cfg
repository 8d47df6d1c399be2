SPECIFICATION Spec
CONSTANTS
  p = p
  q = q
  s = s
  a = a
  b = b
  Hosts = {p, q}
  Values = {a, b}
  Unset = unset
  Excess = 2
  BufferCells = 15
  NumRounds = 3
  Proposals <- Sequence
  MaxStopped = 0
INVARIANTS Validity IndInv MessagesSurvive
PROPERTY LatticeDecisionsSafety
CHECK_DEADLOCK FALSE
