--------------------------- MODULE MCConfigWriter ---------------------------
EXTENDS ConfigWriter
CONSTANTS ns1, ns2, x, y, n1
\* One call of each kind; upserts of two values of one entry and of an entry of
\* the other section.
MCCalls == {[kind |-> "upsert", ns |-> ns1, section |-> "servers", name |-> n1, value |-> x],
            [kind |-> "upsert", ns |-> ns1, section |-> "servers", name |-> n1, value |-> y],
            [kind |-> "upsert", ns |-> ns2, section |-> "a2aAgents", name |-> n1, value |-> x],
            [kind |-> "remove", section |-> "servers", name |-> n1],
            [kind |-> "virtualServers", ns |-> ns1, value |-> x],
            [kind |-> "caBundle", ns |-> ns1, value |-> x],
            [kind |-> "empty", ns |-> ns1],
            [kind |-> "ensure", ns |-> ns1],
            [kind |-> "delete", ns |-> ns1]}
=============================================================================
