SPECIFICATION Spec
CONSTANTS
  p = p
  q = q
  r = r
  Hosts = {p, q, r}
  MessageCount <- Two
  MaxStopped = 1
INVARIANTS IndInv MajorityHolds NoDeliveryStuck
PROPERTIES UniformBroadcastSafety EveryStepIsNew
SYMMETRY Sources
CHECK_DEADLOCK FALSE
