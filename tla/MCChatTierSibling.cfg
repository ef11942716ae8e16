SPECIFICATION Spec
CONSTANTS
  window = window
  phone = phone
  tablet = tablet
  None = none
  Windows <- OneWindow
  Devices <- OneWindow
  Chats = {a, b}
  Slots = {s1}
  Threads = {t1, t2}
  MaxTurns = 2
  Faults <- NoFault
  HandoverFaults <- NoFault
  ParallelRequests = FALSE
  SiblingTurns = TRUE
  TickOvertaken = FALSE
INVARIANTS OwnWordsOnly
SYMMETRY Same
