SPECIFICATION Spec
CONSTANTS
  Runs = {"a", "b"}
  Outcomes <- AllOutcomes
  Answers <- AllAnswers
  Single = {"a"}
  MaxAttempts = 2
  MaxInvocations = 2
  MaxTears = 1
CHECK_DEADLOCK FALSE
INVARIANTS
  JudgesTheAttemptThatPassed
  UnledgeredCallsAreMuteOrDied
  JudgedExactlyOnce
