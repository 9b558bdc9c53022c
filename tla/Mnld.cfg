SPECIFICATION FairSpec
CONSTANTS
  Hal = hal
  Agps = agps
  Hbd = {hal, agps}
  Link = {flp, geofence}
  Switch = switch
  MaxRequests = 3
  MaxNmea = 1
  MaxFaults = 1
CHECK_DEADLOCK FALSE
INVARIANTS
  TypeOK
  HostNeverCrashes
  EngineFollowsUsers
  AcksSettled
  HalServed
  HostLinks
  HostWatched
PROPERTIES
  Awake
  Settles
