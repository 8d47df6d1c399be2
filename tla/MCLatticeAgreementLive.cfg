SPECIFICATION FairSpec
CONSTANTS
  p = p
  q = q
  s = s
  a = a
  b = b
  Hosts = {p, q, s}
  Values = {a, b}
  Unset = unset
  Excess = 2
  BufferCells = 15
  NumRounds = 1
  Proposals <- Nested
  MaxStopped = 1
INVARIANT NoRoundStuck
PROPERTY LatticeDecisionsSpec
CHECK_DEADLOCK FALSE
