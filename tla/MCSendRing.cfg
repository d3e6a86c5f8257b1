\* Full duplex: slices freed out of order.
SPECIFICATION Spec
CONSTANTS
  r1 = r1
  r2 = r2
  Receivers <- TwoReceivers
  LateJoiners <- TwoReceivers
  ChanCap = 0
  SourceBlocks = 3
  LastShort = FALSE
  RingBlocks = 2
  MaxSlice = 1
  MinTake = 1
  NrSlices = 3
  MaxInFlight = 2
  AsyncModes = {FALSE}
  RetriesUntilDrop = 1
  QueueSize = 1
  FecStripes = 1
  FecRedundancy = 0
  MaxRound = 2
  Repeats = FALSE
  Reorder = FALSE
SYMMETRY Symmetry
INVARIANTS RingIntact
