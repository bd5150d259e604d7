SPECIFICATION Spec
CONSTANTS
  api = api
  cli = cli
  s1 = s1
  s2 = s2
  f1 = f1
  f2 = f2
  None = None
  Process <- TwoProcesses
  Source <- TwoSources
  Fingerprint <- TwoFingerprints
  MaxIngestions = 4
  VersionsToKeep = 2
  MaxCrashes = 1
  MaxFaults = 1
SYMMETRY Symmetry
INVARIANTS
  LinkNeverDangles
  ActiveHasRows
  LinkMatchesManifest
PROPERTIES
  ImplementsGraphVersions
