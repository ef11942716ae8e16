\* Two sessions at once (a flight outlives its session), an intact disk.
CONSTANTS
  a = a
  b = b
  Messages = {a, b}
  Nothing = Nothing
  MaxEpoch = 0
  MaxFaults = 0
  Slots = {1, 2}
  MaxQueue = 2
  MaxUpsets = 1
SPECIFICATION QueueSpec
INVARIANTS QueueTypeOK NothingLost InTurn
SYMMETRY Alike
VIEW Stampless
CHECK_DEADLOCK FALSE
