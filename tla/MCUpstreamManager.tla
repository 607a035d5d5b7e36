-------------------------- MODULE MCUpstreamManager --------------------------
(***************************************************************************)
(* An instance of UpstreamManager: one upstream with two tools, of which   *)
(* one changes its definition when the other becomes invalid.              *)
(***************************************************************************)
EXTENDS UpstreamManager, TLC

CONSTANTS s1, a, b, n1, n2

TwoTools == s1 :> {a, b}
TwoLists == {a :> "d" @@ b :> "d", a :> "e" @@ b :> "bad"}

=============================================================================
