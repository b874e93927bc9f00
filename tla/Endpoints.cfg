SPECIFICATION FairSpec
CONSTANTS
  Profiles = {0}
  Hosts = {h1}
  Nobody = Nobody
  MaxMishaps = 2
  MaxRequests = 2
INVARIANTS OneRadio EndpointsAgree
PROPERTY SwitchEnds
CHECK_DEADLOCK FALSE
