CONSTANTS
  small = small
  big = big
  Models = {small, big}
  Small = {small}
  HighMem = FALSE
  NoModel = NoModel
  MaxActs = 2
SPECIFICATION MCSpec
INVARIANTS EngineTypeOK OneBudget OneChat ReleaseIsQuiet LoadingIsSomeones GateIsOwned EmbedderIsHeld
PROPERTIES OwnerFrees
VIEW Ageless
CHECK_DEADLOCK FALSE
