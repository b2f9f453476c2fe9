\* Two exchanges of a binding, e1 a convergence's review.
SPECIFICATION FairSpec
CONSTANTS
  Exchange = {e1, e2}
  Reviews = {e1}
  None = None
  Human = Human
  Budgets <- Worlds
CHECK_DEADLOCK FALSE
INVARIANTS RestartResumes
