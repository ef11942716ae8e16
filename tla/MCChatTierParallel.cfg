SPECIFICATION Spec
CONSTANTS
  window = window
  phone = phone
  tablet = tablet
  None = none
  Windows <- OneWindow
  Devices <- WindowAndPhone
  Chats = {a, b}
  Slots = {s1}
  Threads = {t1, t2}
  MaxTurns = 2
  Faults <- NoFault
  HandoverFaults <- NoFault
  ParallelRequests = TRUE
  SiblingTurns = FALSE
  TickOvertaken = FALSE
INVARIANTS OwnWordsOnly
SYMMETRY Same
