SPECIFICATION ReadersSpec
CONSTANTS
  RowsOfRuns <- FewRows
  JudgmentRows <- FewJudgments
  ProbeRows <- FewProbes
  RecoveredInput <- LedgerOfRun
  Budgets <- Bounds
CHECK_DEADLOCK FALSE
INVARIANTS
  OneTruth
  AdviceIsMeasured
  ConclusionsAgree
  VoidRowsMoveNothing
