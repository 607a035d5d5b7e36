--------------------------- MODULE MCToolRegistry ---------------------------
(***************************************************************************)
(* Instances of ToolRegistry: upstreams with names of their own (distinct  *)
(* prefixes), and upstreams that may offer the same name.                  *)
(***************************************************************************)
EXTENDS ToolRegistry, TLC

CONSTANTS s1, s2, a, b

OwnNames == (s1 :> {a}) @@ (s2 :> {b})
SharedName == (s1 :> {a}) @@ (s2 :> {a})
OneServer == s1 :> {a, b}
OneTool == s1 :> {a}

=============================================================================
