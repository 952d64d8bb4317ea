SPECIFICATION Spec
CONSTANTS
  Runs = {"a", "b", "x"}
  Family <- AllFamilies
  Sessions <- AllSessions
  Legacies <- AllLegacies
  Live = FALSE
  MaxAttempts = 2
  MaxPasses = 3
  MaxTears = 1
CHECK_DEADLOCK FALSE
INVARIANTS
  SpentOnce
  LabelsAreTrue
PROPERTIES
  PassesKeepTheRecord
