SPECIFICATION Spec
CHECK_DEADLOCK FALSE
CONSTANTS
  w1 = w1
  w2 = w2
  w3 = w3
  w4 = w4
  w5 = w5
  w6 = w6
  Workflow <- Stored
  KeyOf <- StoreKeyOf
  BodyOf <- StoreBodyOf
  NoBody = NoBody
  None <- NoBody
  ChildOf <- StoreChildOf
  MaxTerminal = 0
  MaxRecovery = 2
  MaxEvents = 2
  Worlds <- Sharing
SYMMETRY StoreSymmetry
INVARIANT PinnedUntilReferenced
