SPECIFICATION ConsoleSpec
CONSTANTS
  ip1 = ip1
  ip2 = ip2
  None = None
  Addresses <- MCAddresses
  Rates <- MCRates
  CommandLines <- MCCommandLines
  MaxLines = 3
  MaxGarbled = 1
INVARIANTS BoundToStation ConsoleTypeOK LinesIntact InForce
PROPERTIES KeepsTrying BeaconsResume FallsSilent
