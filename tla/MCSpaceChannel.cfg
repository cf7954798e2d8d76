CONSTANTS
  Params <- MCParams
  Requests <- MCRequests
  Bad = Bad
  MaxPackets = 2
  MaxTime = 0
  MCDelays = {1}
  MCJitters = {1}
  MCReplays = {1}
  MCBursts = {2}
SPECIFICATION Spec
INVARIANTS ChannelInv BurstsSpentExactly NeverEarly SentAsDecided OvertakesOnlyByDelay
PROPERTIES EverythingSent
CHECK_DEADLOCK FALSE
