SPECIFICATION ReadSpec
CONSTANTS
  p1 = p1
  s1 = s1
  Products = {p1}
  Scenarios = {s1}
  Sources = {1}
  SnapshotIds = {}
  HistoryIds = {}
  Keys = {}
  ColumnSets <- MCColumnSets
  GraphHistory = {}
  GraphTimes <- MCGraphTimes
  Analysed = {}
  Requests = {}
  Hashes = {}
  MaxTime = 3
  NoRow = NoRow
  None = None
  Redacted = Redacted
  Fields = {"classification", "title"}
  Versions <- MCVersions
  Targets <- TwoFields
  Snapshots <- MCSnapshots
  DecisionReasons = {"manual_policy_decision"}
  RequestLists <- TwoFieldLists
  Stored <- MCStored
  Separated = {s1}
  OnHold = {}
  Rank <- MCRank
INVARIANTS
  ReadTypeOK
  PurgedStaysHidden
  OutcomesAreInEffect
  ApprovalIsBacked
  ExclusionHides
  BatchIgnoresCallerOrder
CHECK_DEADLOCK FALSE
