SPECIFICATION Spec
CONSTANTS
  a = a
  b = b
  c = c
  Peers <- MCPeers
  MaxPeers = 2
  MaxAps = 2
  SeqMod = 2
  NotifyCap = 1
  StartDelay = 2
  MinGap = 2
  MaxSleep = 3
  StaleAge = 2
  RescanEmpty = 1
  Rescan = 2
  Intervals <- MCIntervals
  Seqs <- MCSeqs
  Horizon = 4
INVARIANTS TypeOK BoundedOvertaking
PROPERTIES Punctual SyncNamesExchange OnlyStaleLeave
SYMMETRY MCSymmetry
