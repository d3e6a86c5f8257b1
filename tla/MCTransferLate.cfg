\* A receiver starts late, may give up or be killed; the sender waits long enough.
SPECIFICATION Spec
CONSTANTS
  r1 = r1
  r2 = r2
  Receivers <- TwoReceivers
  LateJoiners <- OneReceiver
  LateReceivers <- OneReceiver
  ChanCap = 1
  SourceBlocks = 1
  LastShort = FALSE
  RingBlocks = 1
  MaxSlice = 1
  MinTake = 1
  NrSlices = 2
  MaxInFlight = 1
  AsyncModes = {FALSE}
  RetriesUntilDrop = 1
  QueueSize = 1
  FecStripes = 1
  FecRedundancy = 0
  RecvRing = 2
  RecvSlots = 2
  WaitFree = 1
  MaxLoss = 1
  Duplicable = {}
  MaxDup = 0
  MaxEarly = 0
  Killable <- OneReceiver
  GivingUp <- OneReceiver
INVARIANTS CompleteMeansWhole CompletedInOrder SuccessMeansDelivered WriterReleased
CHECK_DEADLOCK FALSE
