\* Full duplex: a slice and the end marker in flight; the threads are fair.
SPECIFICATION FairSpec
CONSTANTS
  r1 = r1
  r2 = r2
  Receivers <- TwoReceivers
  LateJoiners <- TwoReceivers
  ChanCap = 0
  SourceBlocks = 1
  LastShort = FALSE
  RingBlocks = 2
  MaxSlice = 1
  MinTake = 1
  NrSlices = 2
  MaxInFlight = 2
  AsyncModes = {FALSE}
  RetriesUntilDrop = 1
  QueueSize = 1
  FecStripes = 1
  FecRedundancy = 0
  MaxRound = 1
  Repeats = FALSE
  Reorder = FALSE
INVARIANTS CountersMatch ReadyAccounted MemoryConserved
PROPERTIES ReleaseRule DropRule Termination
