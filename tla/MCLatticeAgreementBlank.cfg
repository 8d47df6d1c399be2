SPECIFICATION FairSpec
CONSTANTS
  p = p
  q = q
  s = s
  a = a
  b = b
  Hosts = {p, q}
  Values = {a, b}
  Unset = unset
  Excess = 2
  BufferCells = 15
  NumRounds = 2
  Proposals <- Blank
  MaxStopped = 0
PROPERTY EveryRoundDecided
CHECK_DEADLOCK FALSE
