SPECIFICATION FairSpec
CONSTANTS
  Devices = {d1, d2, room}
  Room = room
  Capacity = 1
  Workers = {w1, w2}
  Driver = driver
  MaxWaiters = 1
  NoSlot = NoSlot
  NoDevice = NoDevice

PROPERTIES RevokedIsCut
