\* For the divergence: workflows that ended are forgotten.
SPECIFICATION Retained
CONSTANTS
  Workflow = {x, y}
  Binding = {b, c}
  None = None
  Snapshots <- PageSnapshots
  LiveLimit = 2
  PermanentLimit = 2
  SendWindow = 1
  CaptureWindow = 2
  JournalLimit = 4
  PairLimit = 2
  MaxTerminal = 1
  Crashes = 1
  Horizon = 5
CHECK_DEADLOCK FALSE
INVARIANT StateValid
