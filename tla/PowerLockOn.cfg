SPECIFICATION Spec
CONSTANTS
  Slots = 2
  ModemRequest <- OnRequest
  Op <- OnOp
  Budget <- OnBudget
  MaxRetry = 2
  None = None
  on = on
  down = down
  reset = reset
CHECK_DEADLOCK FALSE
INVARIANTS
  ModemOffMux
