SPECIFICATION Spec
CONSTANTS
  Visitors = {"v", "w"}
  Tasks = {"a", "b", "gone"}
  Models = {"kimi", "opus", "priced"}
  Priced = {"kimi", "priced"}
  FloorUsd <- Floors
  Pathed = {"kimi"}
  Prompts = {"a", "b"}
  Requests <- AllRequests
  NoCap = NoCap
  NoRequest = NoRequest
  Costs = {4}
  MaxTears = 2
  MaxExecutions = 2
CHECK_DEADLOCK FALSE
INVARIANTS
  SpentAsDisclosed
  ReportIsTheLedger
  LosesAtMostTheLastRun
