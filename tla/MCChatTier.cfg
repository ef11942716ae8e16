SPECIFICATION Spec
CONSTANTS
  window = window
  phone = phone
  tablet = tablet
  None = none
  Windows <- OneWindow
  Devices <- WindowAndPhone
  Chats = {a, b}
  Slots = {s1}
  Threads = {t1}
  MaxTurns = 2
  Faults <- Fault
  HandoverFaults <- NoFault
  ParallelRequests = FALSE
  SiblingTurns = FALSE
  TickOvertaken = FALSE
INVARIANTS TypeOK OwnWordsOnly CleanMeansSaved
PROPERTIES NoRequestLosesAChat ClaimOutlivesRelease
SYMMETRY Same
