SPECIFICATION Spec
CONSTANTS
  Visitors = {"v"}
  Tasks = {"a", "b"}
  Models = {"kimi"}
  Priced = {"kimi"}
  FloorUsd <- Floor
  Pathed = {"kimi"}
  Prompts = {"a", "b"}
  Requests <- OneRequest
  NoCap = NoCap
  NoRequest = NoRequest
  Costs = {1, 4}
  MaxTears = 0
  MaxExecutions = 1
CHECK_DEADLOCK FALSE
INVARIANT
  CapBoundsWhatIsPaid
