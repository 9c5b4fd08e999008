SPECIFICATION CallsFairSpec
CONSTANTS
  Candidates = 3
  MaxCalls = 6
  MaxTokens = 2
  MaxSeconds = 3
  LongestCall = 2
  LargestReply = 2
  max_attempts = 2
  max_iterations = 3
  MaxToolCalls = 2
INVARIANTS
  CallsTypeOK
  ScopeBound
  FactsAtTheLimit
  RowsAreNewest
PROPERTIES
  KeepsCallContract
  NodesKeepContract
  CallReturns
  VisitEnds
