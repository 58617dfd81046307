CONSTANTS
  u1 = u1
  u2 = u2
  u3 = u3
  MaxNames = 26
  Name <- MCName
  OwnerNames = {2}
  Uuid = {u1, u2, u3}
  Server = Server
  SizeArg <- MCSizeArg
  PosArg <- MCPosArg
  MaxRadius = 3
  SizeDefault = 16
  MaxTrusted = 2
  NULL = NULL
SPECIFICATION MCSpec
INVARIANTS TypeOK MapsAgree TrustLists NearestFirst
PROPERTY RevokesOne
