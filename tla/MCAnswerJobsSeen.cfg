SPECIFICATION Spec
CONSTANTS
  phone = phone
  host = host
  first = first
  second = second
  None = none
  Devices <- PhoneAndHost
  Hosts <- OnlyHost
  Jobs <- FirstAndSecond
  Conns = {c1}
  MaxJobs = 1
  Roof = 2
  MaxEvents = 3
  Answered <- OnlyFirst
PROPERTIES FullySeenFailureRefused
CHECK_DEADLOCK FALSE
