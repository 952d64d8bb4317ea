SPECIFICATION FairSpec
CONSTANTS
  c1 = c1
  c2 = c2
  d1 = d1
  Clients = {c1, c2, d1}
  Detached = {d1}
  K = 1
  Backlog = 2
  AttachStalls = FALSE
PROPERTIES
  EndedRunsDie
  ShimsAreReleased
  RunSettles
  BudgetSpec
CHECK_DEADLOCK FALSE
