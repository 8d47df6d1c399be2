SPECIFICATION Spec
CONSTANTS
  p = p
  q = q
  Hosts = {p, q}
  Workload <- Wrap
  SeqModulus = 2
INVARIANT NoMessageLost
CHECK_DEADLOCK FALSE
