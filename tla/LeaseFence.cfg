\* Brokers that start one after the other, with two departures.
CONSTANTS
  Proc = {p1, p2, p3}
  Attempts = 4
  Bounds <- Serial
  None = None
SPECIFICATION Spec
CHECK_DEADLOCK FALSE
INVARIANT ChildFence
