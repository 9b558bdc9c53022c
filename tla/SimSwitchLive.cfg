SPECIFICATION FairSpec
CONSTANTS
  Slots = 2
  Busy = {1}
  MaxSwitch = 1
  Switcher = Switcher
  None = None
CHECK_DEADLOCK FALSE
PROPERTIES
  SendersResume
