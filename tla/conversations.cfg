SPECIFICATION Spec
CONSTANTS
  c1 = c1
  r1 = r1
  r2 = r2
  i1 = i1
  i2 = i2
  e1 = e1
  None = None
  Conversation <- OneConversation
  Request <- TwoRequests
  RequestId <- TwoIds
  Editor <- OneEditor
  MaxTurns = 1
  ForeignKeys = FALSE
SYMMETRY Symmetry
CHECK_DEADLOCK FALSE
INVARIANTS
  OneWriter
  ExchangesWhole
  NoOrphans
PROPERTIES
  ReleaseFreesOwn
  ImplementsStore
