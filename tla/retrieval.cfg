SPECIFICATION Spec
CONSTANTS
  Text <- ShortTexts
  Profile <- TwoProfiles
  TopK = 2
CHECK_DEADLOCK FALSE
INVARIANTS
  ChunksCover
  ScopeKept
  MatchesKept
