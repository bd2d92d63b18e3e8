SPECIFICATION Spec
CONSTANTS
  c1 = c1
  c2 = c2
  None = None
  Controllers <- MCControllers
  MaxEvents = 2
  EventCap = 1
  CommandCap = 1
  UiCap = 1
  UiCommandCap = 1
  IpcCap = 1
  MaxCommands = 2
  MaxFaults = 1
INVARIANTS TypeOK EventsConserved PublishedAsRecorded CommandsInOrder BroadcastsComplete StuckOnlyInCircle
PROPERTIES KeepsPromise
SYMMETRY MCSymmetry
CHECK_DEADLOCK FALSE
