--------------------------- MODULE MCRegistration ---------------------------
EXTENDS Registration
CONSTANTS r1, r2, g1, g2, ns1, ns2
MCPrefix == [r \in {r1, r2} |-> "p"]
MCRank == [r \in {r1, r2} |-> IF r = r1 THEN 1 ELSE 2]
MCGatewayOf == [ns \in {ns1, ns2} |-> IF ns = ns1 THEN g1 ELSE g2]
\* Two registrations with one prefix, two that share a route (of which one
\* changes), two virtual servers; and one resource whose surroundings change.
MCScenarios ==
    [kind : {"a2a"}, first : {{r1, r2}}, members : {{r1, r2, "failure"}}]
    \cup [kind : {"vs"}, first : {{r1, r2}}, members : {{r1, r2, "failure"}}]
    \cup [kind : {"mcp"}, first : {{r1, r2}}, members : {{r1}}]
    \cup [kind : {"a2a"}, first : {{r1}}, members : {{"grant", "route", "failure"}, {r1, "lag"}, {r1, "grant", ns1, "failure"}, {r1, "consent", "failure"}}]
    \cup [kind : {"mcp"}, first : {{r1}}, members : {{r1, "route"}, {r1, ns1, "failure"}, {"consent", "failure"}, {"credential", "lag", "failure"}}]
    \cup [kind : {"vs"}, first : {{r1}}, members : {{r1, ns1, "failure"}, {r1, "consent", "failure"}}]

\* One agent that is registered and deleted, with a copy of the secrets that lags.
MCOneAgent == [kind : {"a2a"}, first : {{r1}}, members : {{r1, "lag"}}]

\* One server, and a grant of an extension that is deleted and created anew.
MCFlicker == [kind : {"mcp"}, first : {{r1}}, members : {{"consent", "flicker"}}]
=============================================================================
