SPECIFICATION Spec
CONSTANTS
  window = window
  phone = phone
  tablet = tablet
  None = none
  Windows <- OneWindow
  Devices <- WindowAndTwo
  Chats = {a, b}
  Slots = {s1, s2}
  Threads = {t1}
  MaxTurns = 2
  Faults <- NoFault
  HandoverFaults <- NoFault
  ParallelRequests = FALSE
  SiblingTurns = FALSE
  TickOvertaken = FALSE
INVARIANTS OwnWordsOnly
SYMMETRY Same
