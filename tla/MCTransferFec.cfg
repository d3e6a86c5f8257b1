\* One receiver, parity, half duplex and asynchronous mode.
SPECIFICATION Spec
CONSTANTS
  r1 = r1
  r2 = r2
  Receivers <- OneReceiver
  LateJoiners <- Nobody
  LateReceivers <- Nobody
  ChanCap = 9
  SourceBlocks = 4
  LastShort = TRUE
  RingBlocks = 3
  MaxSlice = 3
  MinTake = 1
  NrSlices = 2
  MaxInFlight = 1
  AsyncModes = {FALSE, TRUE}
  RetriesUntilDrop = 3
  QueueSize = 1
  FecStripes = 2
  FecRedundancy = 2
  RecvRing = 3
  RecvSlots = 1
  WaitFree = 3
  MaxLoss = 2
  Duplicable = {"REQACK"}
  MaxDup = 1
  MaxEarly = 0
  Killable <- Nobody
  GivingUp <- Nobody
INVARIANTS OutputIsPrefix CompleteMeansWhole FecSuffices
PROPERTIES NeverReopened
CHECK_DEADLOCK FALSE
