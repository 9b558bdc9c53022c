SPECIFICATION Spec
CONSTANTS
  Slots = 2
  ModemRequest <- DownRequest
  Op <- DownOp
  Budget <- DownBudget
  MaxRetry = 2
  None = None
  on = on
  down = down
  reset = reset
CHECK_DEADLOCK FALSE
PROPERTIES
  NoRequestWhenOff
