SPECIFICATION Spec
CONSTANTS
  Object <- Four
  Graph <- AnyGraph
  Loaded <- OneRing
  Member <- Routines
  Source = "a"
  Target = "b"
  MaxHops = 3
  MaxEdges = 7
  MaxRoutes = 2
CHECK_DEADLOCK FALSE
INVARIANTS
  PathsFound
  TrailsHold
  ImpactExact
  PlainDependentsAddUp
