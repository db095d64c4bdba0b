CONSTANTS
  a = a
  b = b
  c = c
  d = d
  Steps <- MCSteps
  Dependencies <- MCDependencies
  Required = {b, d}
  MaxAttempts <- MCMaxAttempts
  Instants = {0, 1, 2, 3, 4, 5, 6}
  Timeout = 1
  Deadlines = {{}, {2}}
  InitialDelay = 1
  Multiplier = 2
  MaxDelay = 1
SPECIFICATION FairDriverSpec
INVARIANTS WorkFollowsDependencies NothingWaitsOnAFailure OutcomeIsEarned SomeStepCanMove SuccessIsTimely
PROPERTIES NoCallAfterCancellation ExecutionEnds
CHECK_DEADLOCK FALSE
