SPECIFICATION Spec
CONSTANTS
  Homes = {"h", "g"}
  MaxToken = 4
  Cells = {"g-1", "g.1", "b.1"}
  Family <- CellFamily
  Slug <- CellSlug
  Truths <- SomeTruths
  Budgets <- Bounds
CHECK_DEADLOCK FALSE
INVARIANTS
  LoginSurvives
  CheckIsHonest
PROPERTIES
  RecordsAreFound
