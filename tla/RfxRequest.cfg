SPECIFICATION Spec
CONSTANTS
  a = a
  b = b
  d = d
  x = x
  u = u
  n = n
  c1 = c1
  h1 = h1
  h2 = h2
  main = main
  None = None
  Request <- MixedRequest
  Owner <- MixedOwner
  Home <- MixedHome
  Controller = {c1}
  Channel = {h1, h2}
  Dispatcher = main
  Unknown = {u}
  NoData = {}
  MaxReply = 2
INVARIANTS
  TypeOK
  OncePlaced
  PendingIffInMcl
  OneInFlight
