SPECIFICATION FairSpec
CONSTANTS
  p = p
  q = q
  Hosts = {p, q}
  Workload <- OneWay
  SeqModulus = 2
INVARIANTS IndInv NoMessageLost QueueBounded NoDuplication NoCreation
PROPERTIES ReliableLinkSafety ReliableDelivery RetransmissionEnds
CHECK_DEADLOCK FALSE
