\* One receiver, a data block delivered again late, its slot recycled.
SPECIFICATION Spec
CONSTANTS
  r1 = r1
  r2 = r2
  Receivers <- OneReceiver
  LateJoiners <- Nobody
  LateReceivers <- Nobody
  ChanCap = 8
  SourceBlocks = 3
  LastShort = FALSE
  RingBlocks = 2
  MaxSlice = 1
  MinTake = 1
  NrSlices = 2
  MaxInFlight = 1
  AsyncModes = {FALSE}
  RetriesUntilDrop = 3
  QueueSize = 1
  FecStripes = 1
  FecRedundancy = 0
  RecvRing = 2
  RecvSlots = 2
  WaitFree = 1
  MaxLoss = 1
  Duplicable = {"DATA"}
  MaxDup = 1
  MaxEarly = 0
  Killable <- Nobody
  GivingUp <- Nobody
INVARIANTS OutputIsPrefix
