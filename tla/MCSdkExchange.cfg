\* Three routers registered, then two requests out of seven.
SPECIFICATION Spec
CONSTANTS
  Declared <- MCDeclared
  Queries <- MCQueries
  Depth = 4
  Requests <- MCRequests
  Path <- MCPath
  IllegalUrls = {"/a.b"}
  Midwares <- MCMidwares
  MaxSent = 2
INVARIANTS ExchangeTypeOK RouterIsTable ReadIsMerge WaitingIsDecoded
PROPERTIES FirstAddedWins ImplementsSdkProtocol
\* The client stops after MaxSent requests.
CHECK_DEADLOCK FALSE
