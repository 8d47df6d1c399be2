SPECIFICATION Spec
CONSTANTS
  p = p
  q = q
  s = s
  a = a
  b = b
  Hosts = {p, q, s}
  Values = {a, b}
  Unset = unset
  Excess = 2
  BufferCells = 15
  NumRounds = 1
  Proposals <- Clash
  MaxStopped = 0
INVARIANTS CountsAreAnswers EveryProposalGrows QuorumAccepted Consistency
PROPERTY AcceptedGrows
CHECK_DEADLOCK FALSE
