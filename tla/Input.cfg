SPECIFICATION Spec
CONSTANTS
  matrix = matrix
  single = single
  straight = straight
  swapped = swapped
  other = other
  broken = broken
  Devices = {matrix, single}
  Outputs <- MCOutputs
  Inputs <- MCInputs
  PressScans = 1
  ReleaseScans = 1
  MaxFaults = 1
  Layouts = {straight, swapped, other, broken}
  Default = straight
  NoLayout = NoLayout
  Kscan <- MCKscan
  Transform <- MCTransform
  Unmapped = {broken}
  QueueSize = 1
  MaxMishaps = 1
INVARIANTS ScansOrWaits NoGhosts KeymapFollowsMatrix
CHECK_DEADLOCK FALSE
PROPERTY ContactsArrive
