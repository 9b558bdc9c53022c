SPECIFICATION Spec
CONSTANTS
  Key = {"radio", "power"}
  Value = {"UNSET", "UNAVAILABLE", "OFF", "ON"}
  Request = {"POWER_ON", "POWER_OFF", "BOOT", "MODEM_OFF"}
  NoKey = "none"
  Radio = radio
  Modem = modem
  Writer = {radio, modem}
  MaxRequests = 2
  MaxFaults = 1
CHECK_DEADLOCK FALSE
INVARIANTS
  TypeOK
  CopiesAgree
  RiljKnows
PROPERTY
  ImplementsSync
