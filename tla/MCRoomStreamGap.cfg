\* What useRoom.ts says of a fresh screen.
CONSTANTS
  a = a
  b = b
  Messages = {a, b}
  Mine = {a}
  MaxEpoch = 1
  MaxResync = 2
  MaxUpsets = 1
SPECIFICATION StreamSpec
INVARIANTS NothingAnnouncedIsLost
CHECK_DEADLOCK FALSE
