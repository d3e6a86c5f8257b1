\* Half duplex: a receiver the sender dropped sees the end marker.
SPECIFICATION Spec
CONSTANTS
  r1 = r1
  r2 = r2
  Receivers <- TwoReceivers
  LateJoiners <- Nobody
  LateReceivers <- Nobody
  ChanCap = 3
  SourceBlocks = 1
  LastShort = FALSE
  RingBlocks = 2
  MaxSlice = 1
  MinTake = 1
  NrSlices = 2
  MaxInFlight = 1
  AsyncModes = {FALSE}
  RetriesUntilDrop = 0
  QueueSize = 1
  FecStripes = 1
  FecRedundancy = 0
  RecvRing = 2
  RecvSlots = 2
  WaitFree = 2
  MaxLoss = 1
  Duplicable = {}
  MaxDup = 0
  MaxEarly = 2
  Killable <- Nobody
  GivingUp <- Nobody
SYMMETRY Symmetry
INVARIANTS IncompleteWaitsForTimeout
CHECK_DEADLOCK FALSE
