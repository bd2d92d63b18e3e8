SPECIFICATION Spec
CONSTANTS
  Reports <- MCReports
  Strays <- MCStrays
  Window = 2
  ChanCap = 1
  MaxReports = 2
  MaxBreaks = 2
INVARIANTS TypeOK EventsAreReports RangesAgree NothingLost LaterEntriesParsed
CHECK_DEADLOCK FALSE
