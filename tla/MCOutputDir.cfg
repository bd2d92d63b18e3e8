SPECIFICATION Spec
CONSTANTS
  p1 = p1
  p2 = p2
  p3 = p3
  Programs <- MCPrograms
  MaxSeconds = 1
INVARIANT NoLogOverwritten
CHECK_DEADLOCK FALSE
