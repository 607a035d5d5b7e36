SPECIFICATION Spec
CONSTANTS
    g1 = g1
    g2 = g2
    s1 = s1
    s2 = s2
    r1 = r1
    r2 = r2
    r3 = r3
    k1 = k1
    k2 = k2
    p1 = p1
    p2 = p2
    None = None
    Gateways = {g1, g2}
    Servers = {s1, s2}
    Requests = {r1, r2, r3}
    Posts = {k1, k2}
    Pods = {p1, p2}
    Worlds <- MCWorlds
    MaxFailures = 1
INVARIANTS OwnSession InitOnlyWhenMissing OpenAccounted TokensOfOwner
PROPERTIES RequestsAnswered SessionsEnd
CHECK_DEADLOCK FALSE
