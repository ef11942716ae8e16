SPECIFICATION FairSpec
CONSTANTS
  phone = phone
  host = host
  first = first
  second = second
  None = none
  Devices <- PhoneAndHost
  Hosts <- OnlyHost
  Jobs <- FirstAndSecond
  Conns = {c1}
  MaxJobs = 1
  Roof = 2
  MaxEvents = 3
  Answered <- OnlyFirst
INVARIANTS TypeOK InOrder WholeMeansWhole
PROPERTIES FrozenOnceEnded SupersedeSparesFollowed UnfollowedStops StoppedEnds
CHECK_DEADLOCK FALSE
