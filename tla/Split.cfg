SPECIFICATION MCSpec
CONSTANTS
  Peripherals = {a, b}
  None = None
  Slots = {1, 2}
  Positions = {0, 1}
  StateQueue = 1
  EventQueue = 1
  MaxChanges = 2
  MaxFailures = 1
  MaxDrops = 1
  WiredKeys = {0, 1}
  EventItems = 1
  CmdItems = 2
  CmdQueue = 1
  MaxNoise = 1
  MaxInputs = 2
INVARIANTS
  LinksSound
  KeymapFollowsView
  LatestStateArrives
PROPERTIES
  EventsAlternate
  KeysArrive
  EventsInOrder
  CommandsInOrder
CHECK_DEADLOCK FALSE
