SPECIFICATION Spec
CONSTANTS
  p1 = p1
  p2 = p2
  s1 = s1
  title = title
  v1 = v1
  v2 = v2
  Products = {p1, p2}
  Scenarios = {s1}
  Fields = {title}
  Versions = {v1, v2}
  Targets <- MCTargets
  Snapshots <- MCSnapshots
  DecisionReasons = {"evidence_sufficient", "evidence_conflict", "manual_policy_decision"}
  MaxTime = 3
INVARIANTS
  TypeOK
  ApprovalIsEarned
  ApplicationTracesToDecision
  OneDispositionPerTarget
  RetryIsRecognised
PROPERTIES
  AppendOnly
  ImplementsDisposition
CHECK_DEADLOCK FALSE
