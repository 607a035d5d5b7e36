SPECIFICATION Spec
CONSTANTS
  r1 = r1  r2 = r2  g1 = g1  g2 = g2  ns1 = ns1  ns2 = ns2  None = None
  Resources = {r1, r2}
  Prefix <- MCPrefix
  CrossNs = {r1, ns1}
  Rank <- MCRank
  Gateways = {g1, g2}
  Namespaces = {ns1, ns2}
  GatewayOf <- MCGatewayOf
  Scenarios <- MCOneAgent
  MaxEvents = 1
  MaxFailures = 0
CHECK_DEADLOCK FALSE
INVARIANT NothingLeftBehind
