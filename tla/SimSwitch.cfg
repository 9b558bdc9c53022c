SPECIFICATION Spec
CONSTANTS
  Slots = 2
  Busy = {0, 1, 7}
  MaxSwitch = 1
  Switcher = Switcher
  None = None
CHECK_DEADLOCK FALSE
INVARIANTS
  TypeOK
  Paired
  PathFollowsMajor
PROPERTIES
  FdStable
  ContextStable
