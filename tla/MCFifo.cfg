\* Both sides, inputs shorter than the ring and longer than two laps of it.
SPECIFICATION FairSpec
CONSTANTS
  Size = 12
  DiskBlock = 4
  NetBlock = 3
  MinTake = 6
  MaxSlice = 6
  Inputs = {0, 5, 26}
INVARIANTS TypeOK MemoryShared NoLostWakeup
PROPERTIES ImplementsStream BothEnd
