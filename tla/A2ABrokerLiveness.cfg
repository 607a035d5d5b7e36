CONSTANTS
  k1 = k1  u1 = u1  u2 = u2  good = good  better = better  offHost = offHost
  r1 = r1  r2 = r2  q1 = q1  None = None  Ticker = Ticker
  Keys = {k1}
  Agent <- MCMovingAgents
  GatewayCAs <- MCGatewayCAsBad
  BadPEMs <- MCBadPEMs
  Urls = {u1, u2}
  ValidatorOf <- MCMixed
  Cards = {good, offHost}
  PathOK <- MCPathOK
  HostOK <- MCHostOK
  Host = "gw"
  Reloads = {r1}
  Requests = {}
  MaxLoads = 2
  MaxClock = 2
SPECIFICATION FairSpec
CHECK_DEADLOCK FALSE
PROPERTIES ConformingListed NonConformingExcluded
