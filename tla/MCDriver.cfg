SPECIFICATION Spec
CONSTANTS
  NumberOf <- Words2Numbers
  ULongLimit = 99999
  IdLimit = 4
  Capacity = 2
  Programs = {"m1", "m2", "m3"}
  CommandLines <- AllLines
  HostsFiles <- AllHosts
  ConfigFiles <- AllConfigs
  MaxLines = 3
  MaxBatch = 2
INVARIANTS TypeOK NothingLost FileIsPrefix OneMoreDatagram EarlyUse TakesPart
CHECK_DEADLOCK FALSE
