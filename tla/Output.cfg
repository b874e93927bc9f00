SPECIFICATION OutputSpec
CONSTANTS
  Profiles = {0, 1}
  Hosts = {h1, h2}
  Nobody = Nobody
  QueueSize = 2
  MaxTyped = 3
  MaxRequests = 3
INVARIANTS OutputSound BondsMatch ReportsArrive
CHECK_DEADLOCK FALSE
