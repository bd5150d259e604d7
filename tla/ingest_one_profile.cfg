SPECIFICATION FairSpec
CONSTANTS
  api = api
  cli = cli
  s1 = s1
  s2 = s2
  f1 = f1
  f2 = f2
  None = None
  Process <- TwoProcesses
  Source <- TwoSources
  Fingerprint <- OneFingerprint
  MaxIngestions = 3
  VersionsToKeep = 2
  MaxCrashes = 1
  MaxFaults = 1
INVARIANTS
  RowsMatchGraph
PROPERTIES
  PassagesStayPut
  LockIsFreed
  RunsReport
