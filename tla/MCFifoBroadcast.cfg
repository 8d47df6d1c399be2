SPECIFICATION FairSpec
CONSTANTS
  p = p
  q = q
  Hosts = {p, q}
  MessageCount <- TwoAndOne
  MaxStopped = 2
INVARIANTS IndInv FifoOrder NothingWithheld
PROPERTY FifoIsUniform
CHECK_DEADLOCK FALSE
