SPECIFICATION Spec
CONSTANTS
  Positions = {1, 2, 3}
  Modifiers = {"shift", "ctrl"}
  Ids = {1, 2}
  Class <- MCClass
  Keymaps <- MCKeymaps
  MaxKeys = 3
  MaxCombos = 1
  MaxHeld = 2
  QueueSize = 5
  MaxPresses <- MCMaxPresses
  Longest = 6
INVARIANTS Settles KeysAccounted StickyOnce
PROPERTY UpdatesEnd
CHECK_DEADLOCK FALSE
