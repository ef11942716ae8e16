SPECIFICATION Spec
CONSTANTS
  window = window
  phone = phone
  tablet = tablet
  None = none
  Windows <- OneWindow
  Devices <- WindowAndPhone
  Chats = {a, b}
  Slots = {s1}
  Threads = {t1}
  MaxTurns = 2
  Faults <- NoFault
  HandoverFaults <- Refused
  ParallelRequests = FALSE
  SiblingTurns = FALSE
  TickOvertaken = FALSE
INVARIANTS OwnWordsOnly
SYMMETRY Same
