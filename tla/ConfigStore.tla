----------------------------- MODULE ConfigStore -----------------------------
(***************************************************************************)
(* What the writer of internal/config promises its callers: the content of *)
(* every configuration secret changes only by whole operations, each       *)
(* applied to the content there is at that moment, at most once per secret *)
(* and only while its caller waits for it.  An operation may also leave a  *)
(* secret as it is: there was nothing to do, or it failed.                 *)
(***************************************************************************)
EXTENDS BrokerConfig

CONSTANTS Writers          \* goroutines of the controllers

VARIABLES store,           \* store[ns]: content of a secret, or None
          pending          \* pending[w]: call in progress and what it has left

sVars == <<store, pending>>

SInit == /\ store = [ns \in Namespaces |-> None]
         /\ pending = [w \in Writers |-> None]

\* The secrets an operation is about.
Targets(o) == IF o.kind = "remove" THEN Namespaces ELSE {o.ns}

Begin(w, o) ==
    /\ pending[w] = None
    /\ \E left \in (SUBSET Targets(o)) \ {{}} :
          pending' = [pending EXCEPT ![w] = [op |-> o, left |-> left]]
    /\ UNCHANGED store

\* The call is done with ns, and returns if that was the last one.
DoneWith(w, ns) ==
    pending' = [pending EXCEPT ![w] =
                   IF @.left = {ns} THEN None ELSE [op |-> @.op, left |-> @.left \ {ns}]]

\* readOrCreateConfigSecret: a missing secret is created empty first.
CreateEmpty(w, ns) ==
    /\ store[ns] = None
    /\ store' = [store EXCEPT ![ns] = EmptyConfig]
    /\ \/ UNCHANGED pending
       \/ DoneWith(w, ns)

Take(w, ns) ==
    /\ store[ns] # None
    /\ store' = [store EXCEPT ![ns] = IF pending[w].op.kind = "delete"
                                      THEN None
                                      ELSE Applied(pending[w].op, @)]
    /\ DoneWith(w, ns)

Leave(w, ns) == DoneWith(w, ns) /\ UNCHANGED store

\* The controller process stops: what is pending is given up.
GiveUp == /\ pending' = [w \in Writers |-> None]
          /\ UNCHANGED store

SNext == \/ \E w \in Writers, o \in Ops : Begin(w, o)
         \/ \E w \in Writers : /\ pending[w] # None
                               /\ \E ns \in pending[w].left :
                                     \/ CreateEmpty(w, ns)
                                     \/ Take(w, ns)
                                     \/ Leave(w, ns)
         \/ GiveUp

SSpec == SInit /\ [][SNext]_sVars
=============================================================================
