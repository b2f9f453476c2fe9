SPECIFICATION FairSpec
CONSTANTS
  MaxCycles  = 2
  Recoveries = 2
  Retries    = 2
  MaxChats   = 1
  Outcomes  <- Kinds
  Verdicts  <- Said
  Worlds    <- Everything
INVARIANT PauseHolds
CHECK_DEADLOCK FALSE
