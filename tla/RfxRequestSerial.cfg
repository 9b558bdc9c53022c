SPECIFICATION FairSpec
CONSTANTS
  a = a
  b = b
  d = d
  x = x
  u = u
  n = n
  c1 = c1
  h1 = h1
  h2 = h2
  main = main
  None = None
  Request <- SerialRequest
  Owner <- SerialOwner
  Home <- SerialHome
  Controller = {c1}
  Channel = {h1, h2}
  Dispatcher = main
  Unknown = {}
  NoData = {n}
  MaxReply = 1
INVARIANTS
  NoLostWakeup
  InIssueOrder
PROPERTIES
  EventuallyAnswered
  ImplementsPromise
