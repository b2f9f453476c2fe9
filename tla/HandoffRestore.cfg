\* One run of the handoff, one crash, and a client that starts a broker.
CONSTANTS
  Client = {c2}
  Modern = {c2}
  Setup = {s1}
  Generations = 2
  Crashes = 1
SPECIFICATION Spec
CHECK_DEADLOCK FALSE
INVARIANTS RefusalRestores
