\* Delivery under the fairness of the threads and finitely many losses.
SPECIFICATION FairSpec
CONSTANTS
  r1 = r1
  r2 = r2
  Receivers <- TwoReceivers
  LateJoiners <- Nobody
  LateReceivers <- Nobody
  ChanCap = 1
  SourceBlocks = 2
  LastShort = FALSE
  RingBlocks = 1
  MaxSlice = 1
  MinTake = 1
  NrSlices = 2
  MaxInFlight = 1
  AsyncModes = {FALSE}
  RetriesUntilDrop = 2
  QueueSize = 1
  FecStripes = 1
  FecRedundancy = 0
  RecvRing = 1
  RecvSlots = 2
  WaitFree = 1
  MaxLoss = 1
  Duplicable = {}
  MaxDup = 0
  MaxEarly = 0
  Killable <- Nobody
  GivingUp <- Nobody
PROPERTIES Delivery
