SPECIFICATION Spec
CONSTANTS
  Workflow = {x, y}
  Binding = {b}
  None = None
  Snapshots <- PageSnapshots
  LiveLimit = 2
  PermanentLimit = 2
  SendWindow = 1
  CaptureWindow = 2
  JournalLimit = 4
  PairLimit = 2
  MaxTerminal = 2
  Crashes = 1
  Horizon = 5
CHECK_DEADLOCK FALSE
INVARIANTS StateValid EvidenceIsTrue
PROPERTIES DoneOnce Ends
