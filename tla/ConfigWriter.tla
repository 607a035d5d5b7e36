---------------------------- MODULE ConfigWriter ----------------------------
(***************************************************************************)
(* SecretReaderWriter (internal/config/config_writer.go): every operation  *)
(* is a read-modify-write of a secret through the manager's client.  Reads *)
(* come from the informer's cache and may be old; writes go to the API     *)
(* server, which refuses an update of any but the latest version.  A       *)
(* refused update is tried again MaxTries times in all, then given up.     *)
(* Each controller runs its reconciles on a goroutine of its own (Writers).*)
(***************************************************************************)
EXTENDS BrokerConfig, Naturals, FiniteSets

CONSTANTS Writers,      \* goroutines of the controllers
          MaxTries,     \* retry.DefaultBackoff.Steps
          MaxCalls,     \* bound: calls of all writers together
          MaxFailures,  \* bound: API requests that fail, and restarts
          Calls         \* the operations the controllers call

Secrets == [rv : Nat, config : Configs]

ASSUME WriterAssumption == /\ MaxTries \in Nat \ {0}
                           /\ MaxCalls \in Nat
                           /\ MaxFailures \in Nat
                           /\ Calls \subseteq Ops
                           /\ None \notin Secrets
                           /\ None \notin [op : Ops, left : SUBSET Namespaces]

VARIABLES secret,       \* secret[ns]: the API server's object, or None
          version,      \* version[ns]: resource version last given out
          cache,        \* cache[ns]: the informer's copy
          op,           \* op[w]: the call w is in, or None
          pc,           \* pc[w]: next API call of w
          todo,         \* todo[w]: secrets w has yet to deal with
          at,           \* at[w]: the secret w is dealing with
          copy,         \* copy[w]: backingSecret, what w has read of it
          tries,        \* tries[w]: attempts of RetryOnConflict on it
          calls, failures

api == <<secret, version, cache>>
writer == <<op, pc, todo, at, copy, tries>>
vars == <<secret, version, cache, op, pc, todo, at, copy, tries, calls, failures>>

Init == /\ secret = [ns \in Namespaces |-> None]
        /\ version = [ns \in Namespaces |-> 0]
        /\ cache = [ns \in Namespaces |-> None]
        /\ op = [w \in Writers |-> None]
        /\ pc = [w \in Writers |-> "idle"]
        /\ todo = [w \in Writers |-> {}]
        /\ at = [w \in Writers |-> None]
        /\ copy = [w \in Writers |-> None]
        /\ tries = [w \in Writers |-> 0]
        /\ calls = 0
        /\ failures = 0

-----------------------------------------------------------------------------
\* The writer turns to secret ns.
TurnTo(w, ns) ==
    /\ at' = [at EXCEPT ![w] = ns]
    /\ tries' = [tries EXCEPT ![w] = 1]
    /\ pc' = [pc EXCEPT ![w] = "get"]
    /\ copy' = [copy EXCEPT ![w] = None]

\* The call returns.
Return(w) ==
    /\ op' = [op EXCEPT ![w] = None]
    /\ pc' = [pc EXCEPT ![w] = "idle"]
    /\ todo' = [todo EXCEPT ![w] = {}]
    /\ at' = [at EXCEPT ![w] = None]
    /\ copy' = [copy EXCEPT ![w] = None]
    /\ tries' = [tries EXCEPT ![w] = 0]

\* Done with the secret at hand, whether written, skipped or failed: a removal
\* goes on with the next one on its list, every other call returns.
SecretDone(w) ==
    LET rest == todo[w] \ {at[w]} IN
    IF rest = {} THEN Return(w)
    ELSE \E ns \in rest : /\ todo' = [todo EXCEPT ![w] = rest]
                          /\ TurnTo(w, ns)
                          /\ UNCHANGED op

\* With the secret read: nothing to write, or an update (a deletion) is next.
Decide(w, s) ==
    IF Skipped(op[w], s.config) THEN SecretDone(w)
    ELSE /\ copy' = [copy EXCEPT ![w] = s]
         /\ pc' = [pc EXCEPT ![w] = IF op[w].kind = "delete" THEN "delete" ELSE "update"]
         /\ UNCHANGED <<op, todo, at, tries>>

\* removeNamedEntry lists the secrets there are, according to the cache.
Listed(o) == IF o.kind = "remove" THEN {ns \in Namespaces : cache[ns] # None}
             ELSE {o.ns}

\* UpsertMCPServer, RemoveMCPServer, UpsertA2AAgent, RemoveA2AAgent,
\* WriteVirtualServerConfig, WriteCACertBundle, EnsureConfigExists,
\* WriteEmptyConfig, DeleteConfig are called.  A removal that finds no secret
\* returns at once.
Call(w, o) ==
    /\ op[w] = None
    /\ calls < MaxCalls
    /\ calls' = calls + 1
    /\ IF Listed(o) = {} THEN UNCHANGED writer
       ELSE /\ op' = [op EXCEPT ![w] = o]
            /\ todo' = [todo EXCEPT ![w] = Listed(o)]
            /\ \E ns \in Listed(o) : TurnTo(w, ns)
    /\ UNCHANGED <<api, failures>>

\* Client.Get of readOrCreateConfigSecret and of DeleteConfig.
Get(w) ==
    /\ pc[w] = "get"
    /\ IF cache[at[w]] # None THEN Decide(w, cache[at[w]])
       ELSE IF op[w].kind = "delete" THEN SecretDone(w)
       ELSE pc' = [pc EXCEPT ![w] = "create"] /\ UNCHANGED <<op, todo, at, copy, tries>>
    /\ UNCHANGED <<api, calls, failures>>

\* Client.Create of an empty secret; it may be there already.
Create(w) ==
    /\ pc[w] = "create"
    /\ IF secret[at[w]] = None
       THEN LET s == [rv |-> version[at[w]] + 1, config |-> EmptyConfig] IN
            /\ secret' = [secret EXCEPT ![at[w]] = s]
            /\ version' = [version EXCEPT ![at[w]] = s.rv]
            /\ Decide(w, s)
       ELSE /\ pc' = [pc EXCEPT ![w] = "reget"]
            /\ UNCHANGED <<secret, version, op, todo, at, copy, tries>>
    /\ UNCHANGED <<cache, calls, failures>>

\* Client.Get once more: the cache may still not have it, which is an error.
ReGet(w) ==
    /\ pc[w] = "reget"
    /\ IF cache[at[w]] = None THEN SecretDone(w)
       ELSE Decide(w, cache[at[w]])
    /\ UNCHANGED <<api, calls, failures>>

\* Mutant: the update does not carry the version that was read.
CurrentUnchecked(w) == secret[at[w]] # None

\* The API server takes an update of the latest version only.
Current(w) == secret[at[w]] # None /\ secret[at[w]].rv = copy[w].rv

\* RetryOnConflict: read again and try again, or give up with the conflict.
Conflict(w) ==
    IF tries[w] < MaxTries
    THEN /\ tries' = [tries EXCEPT ![w] = @ + 1]
         /\ pc' = [pc EXCEPT ![w] = "get"]
         /\ copy' = [copy EXCEPT ![w] = None]
         /\ UNCHANGED <<op, todo, at>>
    ELSE SecretDone(w)

\* Client.Update.  One that changes nothing keeps the version.
Update(w) ==
    /\ pc[w] = "update"
    /\ IF Current(w)
       THEN LET c == Applied(op[w], copy[w].config)
                rv == version[at[w]] + 1
            IN  /\ IF c = secret[at[w]].config THEN UNCHANGED <<secret, version>>
                   ELSE /\ secret' = [secret EXCEPT ![at[w]] = [rv |-> rv, config |-> c]]
                        /\ version' = [version EXCEPT ![at[w]] = rv]
                /\ SecretDone(w)
       ELSE /\ IF secret[at[w]] = None THEN SecretDone(w) ELSE Conflict(w)
            /\ UNCHANGED <<secret, version>>
    /\ UNCHANGED <<cache, calls, failures>>

\* Client.Delete carries no precondition: whatever is there goes.
Delete(w) ==
    /\ pc[w] = "delete"
    /\ secret' = [secret EXCEPT ![at[w]] = None]
    /\ SecretDone(w)
    /\ UNCHANGED <<version, cache, calls, failures>>

\* A create, update or delete fails for another reason: the error is returned,
\* a removal still goes on with its other secrets.
RequestFails(w) ==
    /\ pc[w] \in {"create", "update", "delete"}
    /\ failures < MaxFailures
    /\ failures' = failures + 1
    /\ SecretDone(w)
    /\ UNCHANGED <<api, calls>>

\* The watch brings the informer's copy up to date.
Deliver(ns) ==
    /\ cache[ns] # secret[ns]
    /\ cache' = [cache EXCEPT ![ns] = secret[ns]]
    /\ UNCHANGED <<secret, version, writer, calls, failures>>

\* The controller process stops in the middle of whatever it does; the next
\* one begins with a fresh list of all secrets.
Restart ==
    /\ failures < MaxFailures
    /\ failures' = failures + 1
    /\ cache' = secret
    /\ op' = [w \in Writers |-> None]
    /\ pc' = [w \in Writers |-> "idle"]
    /\ todo' = [w \in Writers |-> {}]
    /\ at' = [w \in Writers |-> None]
    /\ copy' = [w \in Writers |-> None]
    /\ tries' = [w \in Writers |-> 0]
    /\ UNCHANGED <<secret, version, calls>>

Step(w) == Get(w) \/ Create(w) \/ ReGet(w) \/ Update(w) \/ Delete(w)

Next == \/ \E w \in Writers : Step(w) \/ RequestFails(w) \/ \E o \in Calls : Call(w, o)
        \/ \E ns \in Namespaces : Deliver(ns)
        \/ Restart

Spec == Init /\ [][Next]_vars

-----------------------------------------------------------------------------
\* Every variable has its type.
TypeOK == /\ secret \in [Namespaces -> Secrets \cup {None}]
          /\ version \in [Namespaces -> Nat]
          /\ cache \in [Namespaces -> Secrets \cup {None}]
          /\ op \in [Writers -> Ops \cup {None}]
          /\ pc \in [Writers -> {"idle", "get", "create", "reget", "update", "delete"}]
          /\ todo \in [Writers -> SUBSET Namespaces]
          /\ at \in [Writers -> Namespaces \cup {None}]
          /\ copy \in [Writers -> Secrets \cup {None}]
          /\ tries \in [Writers -> 0 .. MaxTries]
          /\ calls \in 0 .. MaxCalls
          /\ failures \in 0 .. MaxFailures

\* A resource version stands for one content: a copy of the version that the
\* API server holds is a copy of its content, whether it is a writer's or the
\* informer's.  This is what makes an accepted update lose nothing.
VersionsIdentify ==
    /\ \A w \in Writers : copy[w] # None /\ secret[at[w]] # None =>
                            (copy[w].rv = secret[at[w]].rv => copy[w] = secret[at[w]])
    /\ \A ns \in Namespaces :
          /\ secret[ns] # None => secret[ns].rv <= version[ns]
          /\ cache[ns] # None => cache[ns].rv <= version[ns]
          /\ cache[ns] # None /\ secret[ns] # None /\ cache[ns].rv = secret[ns].rv
                => cache[ns] = secret[ns]

\* The writer implements ConfigStore: no update is lost and no half of an
\* operation is ever seen, with old caches, conflicts, failures and restarts.
Store == INSTANCE ConfigStore WITH
            store <- [ns \in Namespaces |-> IF secret[ns] = None THEN None
                                            ELSE secret[ns].config],
            pending <- [w \in Writers |-> IF op[w] = None THEN None
                                          ELSE [op |-> op[w], left |-> todo[w]]]

\* Every operation takes effect as one whole, on the content there is.
WholeOperations == Store!SSpec

=============================================================================
