--------------------------- MODULE MCBrokerLocks ---------------------------
(* Instances of BrokerLocks for TLC. *)
EXTENDS BrokerLocks, TLC

CONSTANTS r1, r2, s1, s2, q1, sd

MCSymmetry == Permutations(Reloads) \cup Permutations(Servers) \cup Permutations(Requests)
=============================================================================
