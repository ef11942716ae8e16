SPECIFICATION Spec
CONSTANTS
  Devices = {d1, d2, room}
  Room = room
  Capacity = 2
  Workers = {w1, w2}
  Driver = driver
  MaxWaiters = 1
  NoSlot = NoSlot
  NoDevice = NoDevice
SYMMETRY Symmetry
INVARIANTS TypeOK SlotPartition LeasesCounted OneDevicePerSlot NeverWritesRevoked WaitsBounded
PROPERTIES SwapKeepsSeats
