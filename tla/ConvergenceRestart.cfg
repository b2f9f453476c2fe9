SPECIFICATION FairSpec
CONSTANTS
  MaxCycles  = 2
  Recoveries = 2
  Retries    = 2
  MaxChats   = 1
  Outcomes  <- Kinds
  Verdicts  <- Said
  Worlds    <- Restarts
INVARIANT RestartResumes
CHECK_DEADLOCK FALSE
