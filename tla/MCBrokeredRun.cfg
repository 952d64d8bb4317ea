SPECIFICATION Spec
CONSTANTS
  c1 = c1
  c2 = c2
  c3 = c3
  d1 = d1
  Clients = {c1, c2, c3, d1}
  Detached = {d1}
  K = 2
  Backlog = 2
  AttachStalls = TRUE
SYMMETRY Symmetry
CHECK_DEADLOCK FALSE
INVARIANTS
  ExactBudget
  CapRowHasEvidence
  RefusedRunIsMarked
PROPERTIES
  NoLookAfterExhaustion
