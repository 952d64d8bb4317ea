SPECIFICATION Spec
CONSTANTS
  Matrix <- SharedMatrix
  Procs = {"p", "q"}
  Mine <- SharedMine
  Limits = {5}
  MaxUsd = 9
  Outcomes = {{"ok"}, {"cap_exhausted", "verify_timeout"}}
  MaxInvocations = 3
  MaxTears = 1
CHECK_DEADLOCK FALSE
INVARIANTS
  ScoredOnce
  StatusRowOnce
  CutLosesAtMostTwo
