SPECIFICATION EffectSpec
CONSTANTS
  Effect = {e1}
  Identity = {i1, i2}
  Caller = {c1, c2, c3, c4}
  Concurrent = 3
  Crashes = 2
  Void = Void
INVARIANTS
  LedgerTruthful
PROPERTIES
  Settles
CHECK_DEADLOCK FALSE
