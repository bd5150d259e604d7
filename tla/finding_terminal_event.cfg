SPECIFICATION Spec
CONSTANTS
  n1 = n1
  n2 = n2
  n3 = n3
  n4 = n4
  e1 = e1
  e2 = e2
  p1 = p1
  s1 = s1
  None = None
  Node <- FourNodes
  Edge <- TwoEdges
  Path <- OnePath
  Passage <- OnePassage
  CitationId <- TwoIds
  Ends <- EndsOfEdges
  PathNodes <- NodesOfPath
  PathEdges <- EdgesOfPath
  Documented <- MostDocumented
  OfArticle <- OneOfArticle
  Query <- Queries
  Result <- Answers
  MaxToolCalls = 3
  MaxNodes = 3
  MaxEdges = 1
  MaxEvidence = 4
  MaxCites = 2
  Retrieves = TRUE
CHECK_DEADLOCK FALSE
INVARIANT
  OneTerminalEvent
