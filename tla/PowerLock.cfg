SPECIFICATION FairSpec
CONSTANTS
  Slots = 2
  ModemRequest <- OffRequest
  Op <- OffOp
  Budget <- OffBudget
  MaxRetry = 1
  None = None
  on = on
  down = down
  reset = reset
CHECK_DEADLOCK FALSE
INVARIANTS
  TypeOK
  ModemOffMux
  NoRadioInSimSwitch
  RadiosOffFirst
  LockIsRequest
PROPERTIES
  RadioPowerHandled
  ModemReleased
