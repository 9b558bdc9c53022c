SPECIFICATION FairSpec
CONSTANTS
  single = single
  multi = multi
  None = None
  Command <- MCCommand
  Info <- MCInfo
  MaxUrc = 1
  MaxSpurious = 1
CHECK_DEADLOCK FALSE
INVARIANTS
  TypeOK
  RightFinal
  NoStrayAnswer
  NoLostSignal
  AckOnce
PROPERTIES
  EveryCommandReturns
