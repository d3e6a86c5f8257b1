\* Two receivers register, leave and come back while the sender waits.
SPECIFICATION FairSpec
CONSTANTS
  r1 = r1
  r2 = r2
  Unused = Unused
  Receivers <- TwoReceivers
  ChanCap = 4
  MaxClients = 2
  NetConfigs <- Options
  GivingUp <- OneReceiver
  DisconnectRetries = 2
  MaxFaults = 1
INVARIANTS TypeOK TableCounted JoinedAreParticipants 
PROPERTIES AskersAreServed StartsOnceEnough StartTimeoutDecides LeaverForgotten
CHECK_DEADLOCK FALSE
