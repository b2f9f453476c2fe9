\* A stale broker, current or legacy, a client of each runtime, and two runs
\* of the handoff at a time.
CONSTANTS
  Client = {c1, c2}
  Modern = {c2}
  Setup = {s1, s2}
  Generations = 2
  Crashes = 1
SPECIFICATION Spec
CHECK_DEADLOCK FALSE
INVARIANTS StopsIdle Reachable
PROPERTIES DrainSettles
