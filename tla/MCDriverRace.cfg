SPECIFICATION Spec
CONSTANTS
  NumberOf <- Words2Numbers
  ULongLimit = 99999
  IdLimit = 4
  Capacity = 2
  Programs = {"m2"}
  CommandLines <- GoodLines
  HostsFiles <- GoodHosts
  ConfigFiles <- GoodConfigs
  MaxLines = 3
  MaxBatch = 2
INVARIANTS BroadcastsInOrder
CHECK_DEADLOCK FALSE
