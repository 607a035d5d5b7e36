---------------------------- MODULE ToolRegistry ----------------------------
(***************************************************************************)
(* The federated tool list of the MCP broker: one manager loop per         *)
(* upstream server (internal/broker/upstream/manager.go) lists the tools   *)
(* of its upstream and keeps the gateway's registry (gateway_server.go)    *)
(* and the router's routing table (routing_table.go) in step; reloads      *)
(* (broker.go) stop and start managers.                                    *)
(*                                                                         *)
(* A name is a served name, prefix included; two servers without distinct  *)
(* prefixes may offer the same one.  mcpLock appears as far as it orders   *)
(* steps: a reload's critical section excludes the table refreshes, which  *)
(* exclude nobody else.  Who blocks whom is the subject of BrokerLocks.    *)
(***************************************************************************)
EXTENDS Naturals

CONSTANTS
  Servers,      \* upstream servers, by id
  Names,        \* served tool names
  Defs,         \* tool definitions (description, schema)
  Invalid,      \* definitions that ValidateTools refuses
  Offers,       \* Offers[s]: the names server s may offer
  RejectServer, \* invalidToolPolicy = RejectServer?
  Kinds,        \* configured states: "enabled", "disabled", "userSpecific"
  None,
  MaxChanges,   \* bound on the changes of upstream lists
  MaxFailures   \* maxConsecutiveFailures

ToolList == [Names -> Defs \cup {None}]
Empty == [n \in Names |-> None]
Has(l) == {n \in Names : l[n] # None}

ASSUME RegistryAssumption ==
  /\ None \notin Defs /\ None \notin Servers
  /\ None \notin [owner : Servers, def : Defs]
  /\ Invalid \subseteq Defs
  /\ Offers \in [Servers -> SUBSET Names]
  /\ RejectServer \in BOOLEAN
  /\ Kinds \subseteq {"enabled", "disabled", "userSpecific"}
  /\ MaxChanges \in Nat /\ MaxFailures \in Nat \ {0}

VARIABLES
  upstreamTools, changes,     \* what every upstream lists now (external)
  gwTools,                    \* gatewayServer.tools: owner and definition
  cachedTable,                \* the routing table: the server of a name
  mcpServers, rpc, toStop,    \* registered managers; the reload under reloadMu
  kind,                       \* the configuration a manager was started with
  mpc, tools, fetched, toAdd, toRemove, built,    \* managers
  failures, cancelled

upVars == <<upstreamTools, changes>>
reloadVars == <<mcpServers, rpc, toStop, kind>>
vars == <<upVars, gwTools, cachedTable, reloadVars, mpc, tools, fetched, toAdd,
          toRemove, built, failures, cancelled>>

-----------------------------------------------------------------------------
\* An upstream changes its tool list (external).
UpstreamChange(s, l) ==
  /\ changes < MaxChanges
  /\ l # upstreamTools[s] /\ Has(l) \subseteq Offers[s]
  /\ upstreamTools' = [upstreamTools EXCEPT ![s] = l]
  /\ changes' = changes + 1
  /\ UNCHANGED <<gwTools, cachedTable, reloadVars, mpc, tools, fetched, toAdd,
                 toRemove, built, failures, cancelled>>

-----------------------------------------------------------------------------
(* manage: one event of a manager loop *)

\* removeAllTools forgets the tools; the names are deleted by what follows.
removeAllTools(s) ==
  /\ tools' = [tools EXCEPT ![s] = Empty]
  /\ toRemove' = [toRemove EXCEPT ![s] = Has(tools[s])]
  /\ mpc' = [mpc EXCEPT ![s] = "delete"]
  /\ UNCHANGED toAdd

manageDisabled(s) ==
  /\ mpc[s] = "select" /\ kind[s] = "disabled"
  /\ removeAllTools(s)
  /\ failures' = [failures EXCEPT ![s] = 0]
  /\ UNCHANGED <<upVars, gwTools, cachedTable, reloadVars, fetched, built, cancelled>>

\* Mutant: one failure fewer is tolerated.
handleConnectionFailureEarly(s) ==
  /\ mpc[s] = "select" /\ kind[s] # "disabled"
  /\ failures' = [failures EXCEPT ![s] = IF @ < MaxFailures THEN @ + 1 ELSE @]
  /\ IF failures'[s] >= MaxFailures - 1
     THEN removeAllTools(s)
     ELSE UNCHANGED <<tools, toRemove, mpc, toAdd>>
  /\ UNCHANGED <<upVars, gwTools, cachedTable, reloadVars, fetched, built, cancelled>>

\* Connect or Ping fails.  The counter stops mattering at the threshold.
handleConnectionFailure(s) ==
  /\ mpc[s] = "select" /\ kind[s] # "disabled"
  /\ failures' = [failures EXCEPT ![s] = IF @ < MaxFailures THEN @ + 1 ELSE @]
  /\ IF failures'[s] >= MaxFailures
     THEN removeAllTools(s)
     ELSE UNCHANGED <<tools, toRemove, mpc, toAdd>>
  /\ UNCHANGED <<upVars, gwTools, cachedTable, reloadVars, fetched, built, cancelled>>

\* Connected, but no new list: a userSpecificList server has no shared tools, a
\* prompt notification concerns none, and when tools/list fails the tools stay.
manageKeepsTools(s) ==
  /\ mpc[s] = "select" /\ kind[s] # "disabled"
  /\ failures' = [failures EXCEPT ![s] = 0]
  /\ UNCHANGED <<upVars, gwTools, cachedTable, reloadVars, mpc, tools, fetched, toAdd,
                 toRemove, built, cancelled>>

ValidateTool(d) == d \notin Invalid
ValidateTools(l) == [n \in Names |-> IF ValidateTool(l[n]) THEN l[n] ELSE None]
Rejected(l) == RejectServer /\ ValidateTools(l) # l

\* Connected, and the upstream answers tools/list.
getTools(s) ==
  /\ mpc[s] = "select" /\ kind[s] = "enabled"
  /\ failures' = [failures EXCEPT ![s] = 0]
  /\ fetched' = [fetched EXCEPT ![s] = upstreamTools[s]]
  /\ mpc' = [mpc EXCEPT ![s] = "diff"]
  /\ UNCHANGED <<upVars, gwTools, cachedTable, reloadVars, tools, toAdd, toRemove,
                 built, cancelled>>

\* Mutant: tools the upstream dropped are not reported.
diffToolsNoRemove(old, new) == [add |-> Has(new) \ Has(old), remove |-> {}]

\* Tools are told apart by name only.
diffTools(old, new) == [add |-> Has(new) \ Has(old), remove |-> Has(old) \ Has(new)]

findToolConflicts(s, names) == {n \in names : gwTools[n] # None /\ gwTools[n].owner # s}

\* The answer is validated and compared with the manager's list, which it
\* replaces unless another server already has one of the new names.
manageTools(s) ==
  LET valid == ValidateTools(fetched[s])
      diff == diffTools(tools[s], valid)
  IN /\ mpc[s] = "diff"
     /\ \/ Rejected(fetched[s]) /\ removeAllTools(s)
        \/ /\ ~Rejected(fetched[s]) /\ findToolConflicts(s, diff.add) # {}
           /\ mpc' = [mpc EXCEPT ![s] = "select"]
           /\ UNCHANGED <<tools, toAdd, toRemove>>
        \/ /\ ~Rejected(fetched[s]) /\ findToolConflicts(s, diff.add) = {}
           /\ tools' = [tools EXCEPT ![s] = valid]
           /\ toAdd' = [toAdd EXCEPT ![s] = diff.add]
           /\ toRemove' = [toRemove EXCEPT ![s] = diff.remove]
           /\ mpc' = [mpc EXCEPT ![s] = "delete"]
     /\ UNCHANGED <<upVars, gwTools, cachedTable, reloadVars, fetched, built, failures,
                    cancelled>>

-----------------------------------------------------------------------------
(* The gateway's registry *)

\* Both return at once on an empty list; otherwise onTableChange follows.
DeleteTools(s) ==
  /\ mpc[s] = "delete"
  /\ gwTools' = [n \in Names |-> IF n \in toRemove[s] THEN None ELSE gwTools[n]]
  /\ mpc' = [mpc EXCEPT ![s] = IF toRemove[s] = {} THEN "add" ELSE "buildDelete"]
  /\ toRemove' = [toRemove EXCEPT ![s] = {}]
  /\ UNCHANGED <<upVars, cachedTable, reloadVars, tools, fetched, toAdd, built,
                 failures, cancelled>>

\* Where a manager goes on after its last change: its loop, or close(done).
Return(s) == IF cancelled[s] = "stopping" THEN "done" ELSE "select"

AddTools(s) ==
  /\ mpc[s] = "add"
  /\ gwTools' = [n \in Names |-> IF n \in toAdd[s] THEN [owner |-> s, def |-> tools[s][n]]
                                 ELSE gwTools[n]]
  /\ mpc' = [mpc EXCEPT ![s] = IF toAdd[s] = {} THEN Return(s) ELSE "buildAdd"]
  /\ toAdd' = [toAdd EXCEPT ![s] = {}]
  /\ UNCHANGED <<upVars, cachedTable, reloadVars, tools, fetched, toRemove, built,
                 failures, cancelled>>

\* Of two managers that list the same name either may win: the iteration order
\* of a Go map is random.
RoutingTables(servers) ==
  {t \in [Names -> servers \cup {None}] :
     \A n \in Names : IF t[n] = None THEN \A s \in servers : tools[s][n] = None
                      ELSE tools[t[n]][n] # None}

\* onTableChange: under mcpLock.RLock the table is built ...
buildRoutingTable(s) ==
  /\ mpc[s] \in {"buildDelete", "buildAdd"}
  /\ \E t \in RoutingTables(mcpServers) : built' = [built EXCEPT ![s] = t]
  /\ mpc' = [mpc EXCEPT ![s] = IF @ = "buildDelete" THEN "storeDelete" ELSE "storeAdd"]
  /\ UNCHANGED <<upVars, gwTools, cachedTable, reloadVars, tools, fetched, toAdd,
                 toRemove, failures, cancelled>>

\* ... and stored; another manager may do the same meanwhile.
refreshRoutingTable(s) ==
  /\ mpc[s] \in {"storeDelete", "storeAdd"}
  /\ cachedTable' = built[s]
  /\ built' = [built EXCEPT ![s] = Empty]
  /\ mpc' = [mpc EXCEPT ![s] = IF @ = "storeDelete" THEN "add" ELSE Return(s)]
  /\ UNCHANGED <<upVars, gwTools, reloadVars, tools, fetched, toAdd, toRemove,
                 failures, cancelled>>

-----------------------------------------------------------------------------
(* Reloads, serialised by reloadMu, and Stop *)

\* Mutant: a table refresh does not hold the read lock until it stores the table.
WriteLockUnshared == TRUE

\* mcpLock.Lock is granted when no table refresh holds the read lock.
WriteLock == \A s \in Servers : mpc[s] \notin {"storeDelete", "storeAdd"}

deregisterStaleManagers(stale) ==
  /\ rpc = "idle"
  /\ WriteLock
  /\ stale \subseteq mcpServers
  /\ mcpServers' = mcpServers \ stale
  /\ toStop' = stale
  /\ rpc' = "stop"
  /\ UNCHANGED <<upVars, gwTools, cachedTable, kind, mpc, tools, fetched, toAdd,
                 toRemove, built, failures, cancelled>>

\* Stop: cancel one manager, then wait until it is done.
StopCancel(s) ==
  /\ rpc = "stop"
  /\ s \in toStop /\ cancelled[s] = "no"
  /\ \A t \in toStop : cancelled[t] = "no" \/ mpc[t] = "done"
  /\ cancelled' = [cancelled EXCEPT ![s] = "cancelled"]
  /\ UNCHANGED <<upVars, gwTools, cachedTable, reloadVars, mpc, tools, fetched, toAdd,
                 toRemove, built, failures>>

\* Mutant: the stopped manager leaves its tools behind.
LoopCancelledKeep(s) ==
  /\ mpc[s] = "select" /\ cancelled[s] = "cancelled"
  /\ cancelled' = [cancelled EXCEPT ![s] = "stopping"]
  /\ mpc' = [mpc EXCEPT ![s] = "done"]
  /\ UNCHANGED <<upVars, gwTools, cachedTable, reloadVars, tools, fetched, toAdd, toRemove,
                 built, failures>>

\* ctx.Done in the manager loop: Disconnect, removeAllTools, close(done).
LoopCancelled(s) ==
  /\ mpc[s] = "select" /\ cancelled[s] = "cancelled"
  /\ cancelled' = [cancelled EXCEPT ![s] = "stopping"]
  /\ removeAllTools(s)
  /\ UNCHANGED <<upVars, gwTools, cachedTable, reloadVars, fetched, built, failures>>

\* Managers are started; the table is rebuilt under the same write lock.
startManagers(new, k) ==
  /\ rpc = "stop"
  /\ \A s \in toStop : mpc[s] = "done"
  /\ WriteLock
  /\ new \subseteq Servers \ mcpServers
  /\ k \in [Servers -> Kinds]
  /\ mcpServers' = mcpServers \cup new
  /\ kind' = [s \in Servers |-> IF s \in new THEN k[s] ELSE kind[s]]
  /\ mpc' = [s \in Servers |-> IF s \in new THEN "select" ELSE mpc[s]]
  /\ cancelled' = [s \in Servers |-> IF s \in new THEN "no" ELSE cancelled[s]]
  /\ failures' = [s \in Servers |-> IF s \in new THEN 0 ELSE failures[s]]
  /\ fetched' = [s \in Servers |-> IF s \in new THEN Empty ELSE fetched[s]]
  /\ cachedTable' \in RoutingTables(mcpServers \cup new)
  /\ toStop' = {} /\ rpc' = "idle"
  /\ UNCHANGED <<upVars, gwTools, tools, toAdd, toRemove, built>>

-----------------------------------------------------------------------------
Init ==
  /\ upstreamTools \in [Servers -> ToolList] /\ changes = 0
  /\ \A s \in Servers : Has(upstreamTools[s]) \subseteq Offers[s]
  /\ gwTools = Empty /\ cachedTable = Empty
  /\ mcpServers = {} /\ rpc = "idle" /\ toStop = {}
  /\ kind = [s \in Servers |-> "enabled"]
  /\ mpc = [s \in Servers |-> "done"]
  /\ tools = [s \in Servers |-> Empty] /\ fetched = [s \in Servers |-> Empty]
  /\ toAdd = [s \in Servers |-> {}] /\ toRemove = [s \in Servers |-> {}]
  /\ built = [s \in Servers |-> Empty]
  /\ failures = [s \in Servers |-> 0]
  /\ cancelled = [s \in Servers |-> "no"]

ManagerStep(s) ==
  \/ manageDisabled(s) \/ getTools(s) \/ manageTools(s)
  \/ DeleteTools(s) \/ AddTools(s) \/ buildRoutingTable(s) \/ refreshRoutingTable(s)
  \/ LoopCancelled(s)

ManagerFails(s) == handleConnectionFailure(s) \/ manageKeepsTools(s)

ReloadEnds ==
  \/ \E s \in Servers : StopCancel(s)
  \/ \E new \in SUBSET Servers, k \in [Servers -> Kinds] : startManagers(new, k)

Next ==
  \/ \E s \in Servers, l \in ToolList : UpstreamChange(s, l)
  \/ \E s \in Servers : ManagerStep(s) \/ ManagerFails(s)
  \/ \E stale \in SUBSET Servers : deregisterStaleManagers(stale)
  \/ ReloadEnds

Spec == Init /\ [][Next]_vars

\* Managers and reloads run, the ticker ticks, and an upstream that is asked
\* again and again does answer; Go's select takes a ready ctx.Done in the end.
Fairness ==
  /\ \A s \in Servers : /\ WF_vars(ManagerStep(s))
                        /\ SF_vars(getTools(s)) /\ SF_vars(LoopCancelled(s))
  /\ WF_vars(ReloadEnds)

FairSpec == Spec /\ Fairness

-----------------------------------------------------------------------------
(* Properties *)

\* Registry, table, reload and manager variables have their types.
TypeOK ==
  /\ upstreamTools \in [Servers -> ToolList] /\ changes \in 0 .. MaxChanges
  /\ gwTools \in [Names -> [owner : Servers, def : Defs] \cup {None}]
  /\ cachedTable \in [Names -> Servers \cup {None}]
  /\ mcpServers \in SUBSET Servers /\ rpc \in {"idle", "stop"} /\ toStop \in SUBSET Servers
  /\ kind \in [Servers -> {"enabled", "disabled", "userSpecific"}]
  /\ mpc \in [Servers -> {"select", "diff", "delete", "buildDelete", "storeDelete", "add",
                          "buildAdd", "storeAdd", "done"}]
  /\ tools \in [Servers -> ToolList] /\ fetched \in [Servers -> ToolList]
  /\ toAdd \in [Servers -> SUBSET Names] /\ toRemove \in [Servers -> SUBSET Names]
  /\ built \in [Servers -> [Names -> Servers \cup {None}]]
  /\ failures \in [Servers -> 0 .. MaxFailures]
  /\ cancelled \in [Servers -> {"no", "cancelled", "stopping"}]

\* No tool outlives its manager: an entry of the gateway's registry belongs to a
\* running manager that lists the tool or is about to delete it, so a server that
\* is removed from the configuration leaves nothing behind.
NoOrphanTools ==
  \A n \in Names : gwTools[n] # None =>
    LET s == gwTools[n].owner
    IN mpc[s] # "done" /\ (tools[s][n] # None \/ n \in toRemove[s])

\* A tool that a manager lists is served under that manager's id, or is about to
\* be: what GetServerInfo and the routing table promise the gateway does list.
ListedToolsServed ==
  \A s \in Servers, n \in Names : tools[s][n] # None =>
    n \in toAdd[s] \/ (gwTools[n] # None /\ gwTools[n].owner = s)

\* A tool disappears from the gateway only because the last answer of its upstream
\* lacks it (or has it invalid, or is refused), or the upstream was unreachable
\* MaxFailures times in a row, or its manager is being stopped: transient failures,
\* failed lists and other managers leave it served.
DropsJustified ==
  [][\A n \in Names : gwTools[n] # None /\ gwTools'[n] = None =>
       LET s == gwTools[n].owner
       IN \/ ValidateTools(fetched[s])[n] = None \/ Rejected(fetched[s])
          \/ failures[s] = MaxFailures
          \/ cancelled[s] = "stopping"]_vars

\* An upstream that stays reachable and keeps its list has in the end exactly the
\* names served that ValidateTools and the policy let through, none of them another
\* server's: the ticker's re-list bounds staleness.  Names only: diffTools does not
\* look at definitions, see DefinitionsBecomeFresh.
Accepted(l) == IF Rejected(l) THEN {} ELSE Has(ValidateTools(l))
ListsBecomeFresh ==
  \A s \in Servers :
    <>[](s \in mcpServers /\ kind[s] = "enabled" /\ failures[s] < MaxFailures)
      => <>[]({n \in Names : gwTools[n] # None /\ gwTools[n].owner = s} = Accepted(upstreamTools[s]))

\* "The tick bounds worst-case staleness" (backend-mcp-management.md): the definitions
\* served in the end are those the upstream lists.  This does not hold: a tool that is
\* listed under the same name counts as unchanged (diffTools).
DefinitionsBecomeFresh ==
  \A s \in Servers :
    <>[](s \in mcpServers /\ kind[s] = "enabled" /\ failures[s] < MaxFailures)
      => <>[](\A n \in Names : gwTools[n] # None /\ gwTools[n].owner = s =>
                                 gwTools[n].def = upstreamTools[s][n])

\* Between reloads the routing table sends calls to registered servers only, although
\* managers build it under a shared lock and store it later.
RoutesRegistered ==
  rpc = "idle" => \A n \in Names : cachedTable[n] \in mcpServers \cup {None}

\* When no manager and no reload is in the middle of something, the routing table
\* names a server for exactly the tools that some registered manager lists: "the
\* table is rebuilt and swapped on config or tool list changes".
TableSettled ==
  rpc = "idle" /\ (\A s \in Servers : mpc[s] \in {"select", "done"}) =>
    cachedTable \in RoutingTables(mcpServers)

\* A served tool is never taken over: "tool and prompt conflicts preserve existing
\* capabilities", so an entry is deleted before another server's takes its place.
OwnersKept ==
  [][\A n \in Names : gwTools[n] # None /\ gwTools'[n] # None =>
       gwTools'[n].owner = gwTools[n].owner]_vars

=============================================================================
