SPECIFICATION Spec
CONSTANTS
  p1 = p1
  p2 = p2
  s1 = s1
  Products = {p1, p2}
  Scenarios = {s1}
  Sources = {b1, b2}
  b1 = b1
  b2 = b2
  SnapshotIds = {1}
  HistoryIds = {1, 2, 3}
  Keys <- MCKeys
  ColumnSets <- MCColumnSets
  GraphHistory <- MCGraphHistory
  GraphTimes <- MCGraphTimes
  Analysed = {s1}
  Requests = {"none", "manual_trigger", "alias_approved"}
  Hashes = {TRUE}
  MaxTime = 3
  NoRow = NoRow
  None = None
  Redacted = Redacted
SYMMETRY MCSymmetry
INVARIANTS
  TypeOK
  HistoryIsAChain
  HistoryFollowsOwnership
  TombstoneCountsRedaction
  HeldIsUnreadable
PROPERTIES
  AppendOnlyOutsidePurge
  HeldStaysHeld
CHECK_DEADLOCK FALSE
