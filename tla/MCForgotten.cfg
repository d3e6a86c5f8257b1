\* Both receivers may run into --start-timeout; one datagram is lost.
SPECIFICATION FairSpec
CONSTANTS
  r1 = r1
  r2 = r2
  Unused = Unused
  Receivers <- TwoReceivers
  ChanCap = 4
  MaxClients = 2
  NetConfigs <- OnlyDefaults
  GivingUp <- TwoReceivers
  DisconnectRetries = 2
  MaxFaults = 1
PROPERTIES GivenUpIsForgotten
CHECK_DEADLOCK FALSE
