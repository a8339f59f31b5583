SPECIFICATION DaemonSpec
CONSTANTS
  Objects <- MCObjects
  Names <- MCNames
  IdSpace = 2
  NoName = NoName
  Vacant = Vacant
  Conns = {c1, c2}
  Requests <- MCRequests
  NoConn = NoConn
  NoRequest = NoRequest
  NoVerdict = NoVerdict
PROPERTIES
  UnlockEndsChallenges
