\* Half duplex: one slice in flight.
SPECIFICATION Spec
CONSTANTS
  r1 = r1
  r2 = r2
  Receivers <- TwoReceivers
  LateJoiners <- TwoReceivers
  ChanCap = 0
  SourceBlocks = 3
  LastShort = FALSE
  RingBlocks = 2
  MaxSlice = 2
  MinTake = 1
  NrSlices = 2
  MaxInFlight = 1
  AsyncModes = {FALSE, TRUE}
  RetriesUntilDrop = 0
  QueueSize = 1
  FecStripes = 1
  FecRedundancy = 0
  MaxRound = 2
  Repeats = TRUE
  Reorder = FALSE
SYMMETRY Symmetry
INVARIANTS TypeOK CountersMatch ReadyAccounted RingIntact MemoryConserved
PROPERTIES ReleaseRule DropRule
