----------------------------- MODULE MCPowerLock -----------------------------
(* PowerLock with the requests that find the modem on and switch it off, with  *)
(* a POWEROFF alone, and with a POWERON that finds it on.                     *)
EXTENDS PowerLock

CONSTANTS on, down, reset

OffRequest == {down, reset}
OffOp == [r \in OffRequest |-> IF r = down THEN "POWEROFF" ELSE "RESET_RADIO"]
OffBudget == [radio |-> 1, session |-> 2, urc |-> 2]

DownRequest == {down}
DownOp == [r \in DownRequest |-> "POWEROFF"]
DownBudget == [radio |-> 1, session |-> 1, urc |-> 1]

OnRequest == {on}
OnOp == [r \in OnRequest |-> "POWERON"]
OnBudget == [radio |-> 0, session |-> 1, urc |-> 1]
=============================================================================
