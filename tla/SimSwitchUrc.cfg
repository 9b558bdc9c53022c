SPECIFICATION Spec
CONSTANTS
  Slots = 2
  Busy = {}
  MaxSwitch = 1
  Switcher = Switcher
  None = None
CHECK_DEADLOCK FALSE
INVARIANTS
  AllFollowMajor
