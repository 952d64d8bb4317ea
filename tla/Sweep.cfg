SPECIFICATION Spec
CONSTANTS
  Matrix <- MixedMatrix
  Procs = {"p"}
  Mine <- One
  Limits = {1, 6}
  MaxUsd = 2
  Outcomes = {{"ok"}, {"cap_exhausted"}, {"timeout"}}
  MaxInvocations = 3
  MaxTears = 0
CHECK_DEADLOCK FALSE
INVARIANTS
  OptionsAreKept
  LedgerGap
PROPERTIES
  CampaignSpec
