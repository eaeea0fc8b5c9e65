SPECIFICATION Spec
CONSTANTS
  None = None
  Texts <- MCTexts
  ComparisonKey <- MCComparisonKey
  Registries <- MCRegistries
  RobotsTexts <- MCRobotsTexts
  PolicyTexts = {p1, p2}
  Pages <- MCPages
  Foreign = 0
  UserAgent = "pilot"
  MaxCandidates = 2
  MaxEntries = 2
  MaxRuns = 3
  MaxChanges = 2
  MaxInstalls = 2
  Shas = {"c1", "c2"}
CHECK_DEADLOCK FALSE
INVARIANT IntakeTypeOK
INVARIANT ListingFollowsApproval
INVARIANT InstalledResolves
INVARIANT IntakeIsComplete
PROPERTY ImplementsInstallOnce
