SPECIFICATION SemanticSpec
CONSTANTS
  v1 = v1
  v2 = v2
  w1 = w1
  w2 = w2
  Checkpoints <- Shown
  Evidence = {v1, v2}
  Wait = {w1, w2}
  Void = Void
  History = 6
  EvidenceLimit = 1
  WaitLimit = 2
  Useful = 1
  Duration = 1
  Extension = 1
  Gaps <- EveryGap
  Epochs = 2
  Horizon = 5
CHECK_DEADLOCK FALSE
INVARIANT SemanticValid
PROPERTIES VerdictNeedsTwo StallIsNoticed CoverIsBounded
