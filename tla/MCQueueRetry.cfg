SPECIFICATION Spec
CONSTANTS
  c1 = c1
  c2 = c2
  None = None
  Contents = {c1, c2}
  Scopes <- MCScopes
  MaxBase = 2
  MaxRetries = 2
  MaxChanges = 2
  MaxFaults = 1
INVARIANTS TypeOK OneRunPerAttempt
PROPERTIES StopIsFinal RequestSettles
CHECK_DEADLOCK FALSE
