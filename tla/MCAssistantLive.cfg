SPECIFICATION FairAssistantSpec
CONSTANTS
  Objects <- MCObjects
  Names <- MCNames
  IdSpace = 2
  NoName = NoName
  Vacant = Vacant
  Conns = {mcp, c1}
  Mcp = mcp
  Requests <- MCLiveRequests
  McpRequests <- MCLiveMcpRequests
  CliRequests <- MCLiveCliRequests
  Workers = {mcp}
  NoConn = NoConn
  NoRequest = NoRequest
  NoVerdict = NoVerdict
INVARIANTS
  AssistantTypeOK
PROPERTIES
  LinesAnswered
  EveryRequestAnswered
CHECK_DEADLOCK TRUE
