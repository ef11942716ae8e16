\* One session at a time, a disk that may be damaged, and fairness.
CONSTANTS
  a = a
  b = b
  Messages = {a, b}
  Nothing = Nothing
  MaxEpoch = 1
  MaxFaults = 1
  Slots = {1}
  MaxQueue = 2
  MaxUpsets = 1
SPECIFICATION FairQueueSpec
INVARIANTS OneEntryPerNumber AckedIsKept
PROPERTIES KeepsPromise EventuallyPosted
CHECK_DEADLOCK FALSE
