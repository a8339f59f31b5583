SPECIFICATION AssistantSpec
CONSTANTS
  Objects <- MCObjects
  Names <- MCNames
  IdSpace = 2
  NoName = NoName
  Vacant = Vacant
  Conns = {mcp, c1}
  Mcp = mcp
  Requests <- MCRequests
  McpRequests <- MCMcpRequests
  CliRequests <- MCCliRequests
  Workers = {}
  NoConn = NoConn
  NoRequest = NoRequest
  NoVerdict = NoVerdict
INVARIANTS
  DaemonTypeOK
  LineToCome
PROPERTIES
  CallsKeepPromise
  GateHolds
  LockIsFinal
  ReplyMatchesTable
CHECK_DEADLOCK TRUE
