CONSTANTS
  small = small
  big = big
  Models = {small, big}
  Small = {small}
  HighMem = FALSE
  NoModel = NoModel
  MaxActs = 2
SPECIFICATION MCSpec
INVARIANT LoadingFaceIsTrue
VIEW Ageless
CHECK_DEADLOCK FALSE
