CONSTANTS
  k1 = k1  u1 = u1  u2 = u2  good = good  better = better  offHost = offHost
  r1 = r1  r2 = r2  q1 = q1  None = None  Ticker = Ticker
  Keys = {k1}
  Agent <- MCTwoAgents
  GatewayCAs = {""}
  BadPEMs = {}
  Urls = {u1, u2}
  ValidatorOf <- MCMixed
  Cards = {good, offHost}
  PathOK <- MCPathOK
  HostOK <- MCHostOK
  Host = "gw"
  Reloads = {r1, r2}
  Requests = {q1}
  MaxLoads = 2
  MaxClock = 2
SPECIFICATION Spec
CHECK_DEADLOCK FALSE
SYMMETRY MCReloadSymmetry
INVARIANTS RejectedNotCached ServedConform
PROPERTY CommitFromRegisteredURL
