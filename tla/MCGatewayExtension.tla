------------------------- MODULE MCGatewayExtension -------------------------
EXTENDS GatewayExtension
CONSTANTS e1, e2, e3, ns1, ns2, l1, l2, l3
\* e1 and e2 share a port, e1 and e3 a namespace.
MCNsOf == [e \in {e1, e2, e3} |-> IF e = e2 THEN ns2 ELSE ns1]
MCListenerOf == [e \in {e1, e2, e3} |-> CASE e = e1 -> l1 [] e = e2 -> l2 [] e = e3 -> l3]
MCPortOf == [l \in {l1, l2, l3} |-> IF l = l3 THEN 2 ELSE 1]

\* Creation times of two rivals: either is the older one.
MCBorn(S) == {f \in [S -> {0, 1}] : \E d, e \in S : f[d] # f[e]}
MCPair(S, what) == [first : {S}, born : MCBorn(S), kinds : {{}}, generate : {FALSE}, changes : {what}]
MCSolo(kinds, generate, what) ==
    [first : {{e1}}, born : {[e \in {e1} |-> 0]}, kinds : {kinds}, generate : {generate}, changes : {what}]

\* Rivals for a port or a namespace, of which one comes and goes; one extension
\* whose resources, whose secrets, or whose surroundings change.
MCScenarios ==
    MCPair({e1, e2}, {e1}) \cup MCPair({e1, e3}, {e1})
    \cup MCSolo({"deployment"}, FALSE, {"own", "failure"})
    \cup MCSolo({"tokens"}, FALSE, {"own", "tokens", "routes", "failure"})
    \cup MCSolo({}, TRUE, {"secret", "failure"}) \cup MCSolo({}, TRUE, {e1}) \cup MCSolo({"service"}, FALSE, {e1})
    \cup MCSolo({}, FALSE, {"filter", "gateway", e1, "failure"})
    \cup MCSolo({}, FALSE, {"target", "grant", "failure"})
    \cup MCSolo({"httproute"}, FALSE, {"target", "own", "routes"})

\* Two rivals that are pointed at other listeners.
MCRetarget == MCPair({e1, e2}, {"target"})
=============================================================================
