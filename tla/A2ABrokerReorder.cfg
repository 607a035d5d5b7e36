CONSTANTS
  k1 = k1  u1 = u1  u2 = u2  good = good  better = better  offHost = offHost
  r1 = r1  r2 = r2  q1 = q1  None = None  Ticker = Ticker
  Keys = {k1}
  Agent <- MCMovingAgents
  GatewayCAs = {""}
  BadPEMs = {}
  Urls = {u1, u2}
  ValidatorOf <- MCMixed
  Cards = {good}
  PathOK <- MCPathOK
  HostOK <- MCHostOK
  Host = "gw"
  Reloads = {r1, r2}
  Requests = {}
  MaxLoads = 2
  MaxClock = 1
SPECIFICATION Spec
CHECK_DEADLOCK FALSE
INVARIANT ReloadsSettled
