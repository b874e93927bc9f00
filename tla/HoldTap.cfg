SPECIFICATION Spec
CONSTANTS
  m = m
  l = l
  k = k
  NoPos = NoPos
  HoldTaps = {m, l}
  Plain = {k}
  Kind <- MCKind
  Configs <- MCConfigs
  MaxHeld = 2
  MaxCaptured = 3
  MaxTime = 3
  MaxPresses = 3
INVARIANTS
  SlotsSound
  EventsKept
  BindingsReleased
PROPERTIES
  EventuallyDecided
CHECK_DEADLOCK FALSE
