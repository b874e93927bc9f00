SPECIFICATION FairSpec
CONSTANTS
  TxFifoSize = 2
  RxFifoSize = 1
  EventSize = 2
  RetransmitCount = 1
  PidMax = 3
  Nothing = Nothing
  Types <- MCTypes
  Bodies <- MCBodies
  Released = "none"
  MaxFailures = 2
  FailureWrap = 4
  CounterMax = 4
  ReplayWindow = 2
  MaxFaults = 1
INVARIANTS
  HostAgrees
PROPERTIES
  DeliversInOrder
  ReportsSettle
CHECK_DEADLOCK FALSE
