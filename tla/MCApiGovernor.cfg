SPECIFICATION Spec
CONSTANTS
  Limit = 8
  MaxAttempts = 3
  MaxPages = 2
  Threshold = 2
  Cooldown = 2
  Responses <- MCResponses
  MaxTime = 4
  None = None
INVARIANTS
  TypeOK
  SuccessIsProven
  WriteIsSentOnce
  DefiniteFailureIsFinal
  FailuresAreSpaced
  CallIsBounded
PROPERTY CallsEnd
CHECK_DEADLOCK FALSE
