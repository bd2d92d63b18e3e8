SPECIFICATION Spec
CONSTANTS
  p1 = p1
  p2 = p2
  s1 = s1
  None = None
  Peers <- MCPeers
  Strangers <- MCStrangers
  BurstCounts <- MCBurstCounts
  CsiChannelCap = 2
  MaxFrames = 3
INVARIANTS TypeOK ReportMatchesSession WakeupComing ReceptionOrder BufferIsPeers NoFrameTwice SilencedOnlyByFailure
PROPERTIES WorkRunsOut ExchangeSpec
