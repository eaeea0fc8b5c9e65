SPECIFICATION ReadSpec
CONSTANTS
  p1 = p1
  s1 = s1
  Products = {p1}
  Scenarios = {s1}
  Sources = {1}
  SnapshotIds = {}
  HistoryIds = {}
  Keys = {}
  ColumnSets <- MCColumnSets
  GraphHistory = {}
  GraphTimes <- MCGraphTimes
  Analysed = {}
  Requests = {}
  Hashes = {}
  MaxTime = 3
  NoRow = NoRow
  None = None
  Redacted = Redacted
  Fields = {"classification", "title"}
  Versions <- MCVersions
  Targets <- TwoVersions
  Snapshots <- MCSnapshots
  DecisionReasons = {"manual_policy_decision"}
  RequestLists <- TwoVersionLists
  Stored <- MCClassified
  Separated = {s1}
  OnHold = {}
  Rank <- MCRank
INVARIANT ExclusionsMaterialize
CHECK_DEADLOCK FALSE
