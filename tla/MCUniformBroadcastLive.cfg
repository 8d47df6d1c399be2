SPECIFICATION FairSpec
CONSTANTS
  p = p
  q = q
  r = r
  Hosts = {p, q, r}
  MessageCount <- One
  MaxStopped = 1
PROPERTY UniformBroadcastSpec
CHECK_DEADLOCK FALSE
