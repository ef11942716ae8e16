\* The store with the failures it does not withstand.
CONSTANTS
  a = a
  b = b
  Messages = {a, b}
  Nothing = Nothing
  MaxEpoch = 1
  MaxFaults = 1
SPECIFICATION ShakenSpec
INVARIANTS OneEntryPerNumber
CHECK_DEADLOCK FALSE
