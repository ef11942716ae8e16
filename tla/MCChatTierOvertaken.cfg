SPECIFICATION Spec
CONSTANTS
  window = window
  phone = phone
  tablet = tablet
  None = none
  Windows <- OneWindow
  Devices <- OneWindow
  Chats = {a, b}
  Slots = {s1}
  Threads = {t1}
  MaxTurns = 2
  Faults <- NoFault
  HandoverFaults <- NoFault
  ParallelRequests = FALSE
  SiblingTurns = FALSE
  TickOvertaken = TRUE
INVARIANTS OwnWordsOnly
SYMMETRY Same
