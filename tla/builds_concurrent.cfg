SPECIFICATION Spec
CONSTANTS
  p1 = p1
  p2 = p2
  r1 = r1
  r2 = r2
  u1 = u1
  u2 = u2
  k1 = k1
  k2 = k2
  f1 = f1
  f2 = f2
  c1 = c1
  c2 = c2
  None = None
  Project <- OneProject
  Request <- TwoRequests
  Index <- ThreeIndexes
  Session <- TwoSessions
  Build <- TwoBuilds
  Key <- TwoKeys
  Name <- OneName
  Content <- TwoContents
  MaxFiles = 2
  MaxCrashes = 1
  Synthetic = FALSE
SYMMETRY Symmetry
INVARIANTS
  OneBuildInFlight
  ProjectStateMatchesJobs
  OneDraftOrSealed
  ActiveIsPublished
  OpenSessionsTargetDraft
  RowsSettle
PROPERTIES
  ImplementsActivation
  FailedBuildsLeaveActive
