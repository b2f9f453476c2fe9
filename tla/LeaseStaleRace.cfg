\* Two start attempts race after the previous broker is gone.
CONSTANTS
  Proc = {p1, p2, p3}
  Attempts = 4
  Bounds <- RaceOfTwo
  None = None
SPECIFICATION Spec
SYMMETRY Processes
CHECK_DEADLOCK FALSE
INVARIANTS OneGeneration
