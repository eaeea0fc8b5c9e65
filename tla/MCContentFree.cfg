SPECIFICATION Spec
CONSTANTS
  h1 = h1
  h2 = h2
  o1 = o1
  a1 = a1
  code = code
  ci = ci
  own = own
  foreign = foreign
  None = None
  Heads <- MCHeads
  FilesOf <- MCFilesOf
  ProtectedPaths <- MCProtected
  Others <- MCOthers
  OtherFiles <- MCOtherFiles
  IssueScopes <- MCScopes
  Amendments <- MCAmendments
  AmendedPaths <- MCAmendedPaths
  Reviews <- EmptyReviews
  WorkflowsOf <- MCWorkflowsOf
  BaseWorkflows <- MCBaseWorkflows
  StartScopes <- MCStartScopes
  StartReviews <- EmptyStart
  MaxChanges = 2
  MaxFailures = 1
INVARIANT ContentFreeIsAbsent
CHECK_DEADLOCK FALSE
