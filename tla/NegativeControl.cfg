SPECIFICATION Spec
CONSTANTS
  Runs = {"a"}
  Budgets <- Bounds
CHECK_DEADLOCK FALSE
INVARIANTS
  GradeIsOfTheSource
  RowTellsWhatTheModelDid
  ControlsAreEarned
  RegradesAreOfTheirRows
