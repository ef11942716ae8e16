\* One message of the phone's own, one of somebody else's, one new epoch.
CONSTANTS
  a = a
  b = b
  Messages = {a, b}
  Mine = {a}
  MaxEpoch = 1
  MaxResync = 2
  MaxUpsets = 1
SPECIFICATION FairStreamSpec
INVARIANTS StreamTypeOK RowsAreReal NoHole
PROPERTIES RowsStay CatchesUp
CHECK_DEADLOCK FALSE
