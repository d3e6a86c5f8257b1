\* Two receivers, half duplex, a lossy network, nobody dropped.
SPECIFICATION Spec
CONSTANTS
  r1 = r1
  r2 = r2
  Receivers <- TwoReceivers
  LateJoiners <- Nobody
  LateReceivers <- Nobody
  ChanCap = 3
  SourceBlocks = 2
  LastShort = FALSE
  RingBlocks = 2
  MaxSlice = 2
  MinTake = 1
  NrSlices = 2
  MaxInFlight = 1
  AsyncModes = {FALSE}
  RetriesUntilDrop = 3
  QueueSize = 1
  FecStripes = 1
  FecRedundancy = 0
  RecvRing = 3
  RecvSlots = 2
  WaitFree = 2
  MaxLoss = 1
  Duplicable = {}
  MaxDup = 0
  MaxEarly = 0
  Killable <- Nobody
  GivingUp <- Nobody
SYMMETRY Symmetry
INVARIANTS TypeOK CompletedInOrder WriterReleased
PROPERTIES ImplementsBroadcast
