---------------------------- MODULE MCA2ABroker ----------------------------
(* Instances of A2ABroker for TLC. *)
EXTENDS A2ABroker, TLC

CONSTANTS k1, u1, u2, good, better, offHost, r1, r2, q1

Registration(u, ca) == [url |-> u, cred |-> "", ca |-> ca, state |-> ""]
Disabled(u) == [url |-> u, cred |-> "", ca |-> "", state |-> "Disabled"]

\* One agent that may be registered at either URL or absent, and also disabled.
MCTwoAgents == {Registration(u1, ""), Registration(u2, "")}
MCMovingAgents == MCTwoAgents \cup {Disabled(u1)}

MCGatewayCAsBad == {"", "gwCA", "garbage"}
MCBadPEMs == {"garbage"}

\* good and better conform for every key; offHost names another host.
MCPathOK == Cards \X Keys
MCHostOK == Cards \ {offHost}

MCLastModified == [u \in Urls |-> "lastmod"]
MCMixed == [u \in Urls |-> IF u = u1 THEN "etag" ELSE "none"]

MCReloadSymmetry == Permutations(Reloads)
=============================================================================
