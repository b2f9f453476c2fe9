SPECIFICATION FairSpec
CONSTANTS
  MaxCycles  = 2
  Recoveries = 2
  Retries    = 2
  MaxChats   = 1
  Outcomes  <- Kinds
  Verdicts  <- Said
  Worlds    <- Everything
INVARIANTS StateValid WorkedOnce SettledOnEvidence ReviewedOnce
PROPERTIES CancelRevokes Concludes
CHECK_DEADLOCK FALSE
