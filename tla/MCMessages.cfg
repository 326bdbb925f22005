SPECIFICATION Spec
CONSTANTS
  Nodes = {"A", "B"}
  Requests <- MCRequests
  Messages <- MCGossip
  MaxTop <- MCMaxTop
  SizeOf <- MCSizeOf
  MaxBlockResponseBytes = 1
  MaxFaults = 1
INVARIANTS TypeOK AnswerIsComing
PROPERTIES ImplementsService EachIsReported BlocksReachPeers
CHECK_DEADLOCK FALSE
