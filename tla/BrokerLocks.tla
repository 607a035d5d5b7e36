----------------------------- MODULE BrokerLocks -----------------------------
(***************************************************************************)
(* Who waits for whom in the MCP broker (internal/broker): mcpLock, a      *)
(* sync.RWMutex, reloadMu, and the done channel that Stop waits for.       *)
(*                                                                         *)
(* The goroutines are the reloads that config.Notify starts, one manager   *)
(* loop per upstream server, the HTTP requests that read the registry, and *)
(* Shutdown.  gatewayServer.mu, vsLock and toolsLock are released before   *)
(* any other lock is taken, so they take no part in a wait.                *)
(***************************************************************************)
EXTENDS Naturals

CONSTANTS
  Reloads,      \* goroutines that run OnConfigChange
  Servers,      \* upstream servers, by id; also their manager goroutines
  Requests,     \* goroutines that serve a request
  Shutdowns,    \* the goroutine that runs Shutdown, or none
  TagConfigs,   \* can a configuration name tags?  a set of BOOLEANs
  Authorized,   \* do requests carry x-mcp-authorized?  a set of BOOLEANs
  None

Stoppers == Reloads \cup Shutdowns
Procs == Reloads \cup Servers \cup Requests \cup Shutdowns

ASSUME LocksAssumption ==
  /\ None \notin Procs
  /\ Reloads \cap (Servers \cup Requests \cup Shutdowns) = {}
  /\ Servers \cap (Requests \cup Shutdowns) = {}
  /\ Requests \cap Shutdowns = {}
  /\ \A p, q \in Shutdowns : p = q
  /\ TagConfigs \subseteq BOOLEAN /\ Authorized \subseteq BOOLEAN

VARIABLES
  writer,       \* mcpLock: the goroutine that has called Lock
  rcount,       \* mcpLock: read holds of each goroutine
  waiting,      \* mcpLock: goroutines whose RLock waits for the writer
  reloadMu,     \* the holder of reloadMu
  mcpServers,   \* the registered managers
  rpc,          \* reloads
  toStop,       \* a reload or Shutdown: managers still to stop
  stopping,     \* a reload or Shutdown: the manager whose Stop it is in
  mpc, lists,   \* managers: program counter, their non-empty lists
  cancelled,    \* managers whose context is cancelled
  qpc,          \* requests
  spc           \* Shutdown

lockVars == <<writer, rcount, waiting>>
reloadVars == <<reloadMu, mcpServers, rpc>>
stopVars == <<toStop, stopping>>
managerVars == <<mpc, lists>>
vars == <<lockVars, reloadVars, stopVars, managerVars, cancelled, qpc, spc>>

-----------------------------------------------------------------------------
(* sync.RWMutex (external).  Lock announces the writer, then waits until     *)
(* the read holds are gone.  RLock behind an announced writer waits; Unlock  *)
(* turns every waiting RLock into a read hold before another Lock gets in.   *)

RLock(p) ==
  IF writer = None
  THEN rcount' = [rcount EXCEPT ![p] = @ + 1] /\ UNCHANGED <<writer, waiting>>
  ELSE waiting' = waiting \cup {p} /\ UNCHANGED <<writer, rcount>>

RUnlock(p) ==
  /\ rcount' = [rcount EXCEPT ![p] = @ - 1]
  /\ UNCHANGED <<writer, waiting>>

LockCall(p) == writer = None /\ writer' = p /\ UNCHANGED <<rcount, waiting>>

LockGranted(p) == writer = p /\ \A q \in Procs : rcount[q] = 0

Unlock ==
  /\ writer' = None
  /\ rcount' = [q \in Procs |-> IF q \in waiting THEN rcount[q] + 1 ELSE rcount[q]]
  /\ waiting' = {}

-----------------------------------------------------------------------------
(* activeMCP.Stop, called by phase 2 of a reload and by Shutdown *)

\* Stop cancels the context of the manager ...
StopBegin(p, s) ==
  /\ stopping[p] = None
  /\ s \in toStop[p]
  /\ stopping' = [stopping EXCEPT ![p] = s]
  /\ cancelled' = cancelled \cup {s}
  /\ UNCHANGED <<lockVars, reloadVars, toStop, managerVars, qpc, spc>>

\* ... and waits until its loop has closed the done channel.
StopEnd(p, s) ==
  /\ stopping[p] = s
  /\ mpc[s] = "done"
  /\ stopping' = [stopping EXCEPT ![p] = None]
  /\ toStop' = [toStop EXCEPT ![p] = @ \ {s}]
  /\ UNCHANGED <<lockVars, reloadVars, managerVars, cancelled, qpc, spc>>

-----------------------------------------------------------------------------
(* A reload: OnConfigChange *)

\* Notify starts the goroutine.
ReloadBegin(r) ==
  /\ rpc[r] = "idle"
  /\ rpc' = [rpc EXCEPT ![r] = "reloadMu"]
  /\ UNCHANGED <<lockVars, reloadMu, mcpServers, stopVars,
                 managerVars, cancelled, qpc, spc>>

\* Mutant: reloads are not serialised.
ReloadLockNone(r) ==
  /\ rpc[r] = "reloadMu"
  /\ rpc' = [rpc EXCEPT ![r] = "lock1"]
  /\ UNCHANGED <<lockVars, reloadMu, mcpServers, stopVars,
                 managerVars, cancelled, qpc, spc>>

ReloadLock(r) ==
  /\ rpc[r] = "reloadMu"
  /\ reloadMu = None
  /\ reloadMu' = r
  /\ rpc' = [rpc EXCEPT ![r] = "lock1"]
  /\ UNCHANGED <<lockVars, mcpServers, stopVars,
                 managerVars, cancelled, qpc, spc>>

\* mcpLock.Lock in deregisterStaleManagers and in startManagers.
McpLockCall(r) ==
  /\ rpc[r] \in {"lock1", "lock3"}
  /\ LockCall(r)
  /\ rpc' = [rpc EXCEPT ![r] = IF @ = "lock1" THEN "deregister" ELSE "start"]
  /\ UNCHANGED <<reloadMu, mcpServers, stopVars,
                 managerVars, cancelled, qpc, spc>>

\* Mutant: the managers are stopped before the lock is released.
deregisterKeepsLock(r, stale) ==
  /\ rpc[r] = "deregister"
  /\ LockGranted(r)
  /\ stale \subseteq mcpServers
  /\ mcpServers' = mcpServers \ stale
  /\ toStop' = [toStop EXCEPT ![r] = stale]
  /\ rpc' = [rpc EXCEPT ![r] = "stop"]
  /\ UNCHANGED <<lockVars, reloadMu, stopping, managerVars,
                 cancelled, qpc, spc>>

\* Phase 1: the managers of removed or changed servers leave the registry.
deregisterStaleManagers(r, stale) ==
  /\ rpc[r] = "deregister"
  /\ LockGranted(r)
  /\ stale \subseteq mcpServers
  /\ mcpServers' = mcpServers \ stale
  /\ toStop' = [toStop EXCEPT ![r] = stale]
  /\ Unlock
  /\ rpc' = [rpc EXCEPT ![r] = "stop"]
  /\ UNCHANGED <<reloadMu, stopping, managerVars, cancelled, qpc, spc>>

\* Every Stop has returned.
StopsReturned(r) ==
  /\ rpc[r] = "stop"
  /\ toStop[r] = {}
  /\ rpc' = [rpc EXCEPT ![r] = "lock3"]
  /\ UNCHANGED <<lockVars, reloadMu, mcpServers, stopVars,
                 managerVars, cancelled, qpc, spc>>

\* Phase 3: managers are created and started, derived state is replaced.  When
\* the configuration has no tags, syncTagsTools returns at once.
startManagers(r, new) ==
  /\ rpc[r] = "start"
  /\ LockGranted(r)
  /\ new \subseteq Servers \ mcpServers
  /\ FALSE \in TagConfigs
  /\ mcpServers' = mcpServers \cup new
  /\ mpc' = [s \in Servers |-> IF s \in new THEN "manage" ELSE mpc[s]]
  /\ cancelled' = cancelled \ new
  /\ Unlock
  /\ reloadMu' = None
  /\ rpc' = [rpc EXCEPT ![r] = "idle"]
  /\ UNCHANGED <<stopVars, lists, qpc, spc>>

\* With tags, registerTagsTools calls AddTools and that onTableChange, whose RLock
\* waits for the Lock of this same goroutine: it never gets to set
\* tagsToolsRegistered, nor to release mcpLock and reloadMu.
startManagersSyncTags(r, new) ==
  /\ rpc[r] = "start"
  /\ LockGranted(r)
  /\ new \subseteq Servers \ mcpServers
  /\ TRUE \in TagConfigs
  /\ mcpServers' = mcpServers \cup new
  /\ mpc' = [s \in Servers |-> IF s \in new THEN "manage" ELSE mpc[s]]
  /\ cancelled' = cancelled \ new
  /\ RLock(r)
  /\ rpc' = [rpc EXCEPT ![r] = "tags"]
  /\ UNCHANGED <<reloadMu, stopVars, lists, qpc, spc>>

-----------------------------------------------------------------------------
(* A manager loop: Start, manage, and the end of the loop *)

\* An event (first run, tick, list_changed) starts manage.
ManageBegin(s) ==
  /\ mpc[s] = "select"
  /\ mpc' = [mpc EXCEPT ![s] = "manage"]
  /\ UNCHANGED <<lockVars, reloadVars, stopVars, lists, cancelled, qpc, spc>>

\* manage changes one of its lists; AddTools, DeleteTools, AddPrompts or
\* DeletePrompts calls onTableChange, which calls RLock.
ManageTableChange(s, l) ==
  /\ mpc[s] = "manage"
  /\ l \in SUBSET {"tools", "prompts"}
  /\ lists' = [lists EXCEPT ![s] = l]
  /\ RLock(s)
  /\ mpc' = [mpc EXCEPT ![s] = "refresh"]
  /\ UNCHANGED <<reloadVars, stopVars, cancelled, qpc, spc>>

ManageEnd(s) ==
  /\ mpc[s] = "manage"
  /\ mpc' = [mpc EXCEPT ![s] = "select"]
  /\ UNCHANGED <<lockVars, reloadVars, stopVars, lists, cancelled, qpc, spc>>

\* ctx.Done: the session is closed, the lists are to be removed.
LoopCancelled(s) ==
  /\ mpc[s] = "select"
  /\ s \in cancelled
  /\ mpc' = [mpc EXCEPT ![s] = "remove"]
  /\ UNCHANGED <<lockVars, reloadVars, stopVars, lists, cancelled, qpc, spc>>

\* removeAllPrompts, then removeAllTools; a deletion calls onTableChange.
RemoveAll(s) ==
  /\ mpc[s] = "remove"
  /\ lists[s] # {}
  /\ lists' = [lists EXCEPT ![s] = @ \ (IF "prompts" \in @ THEN {"prompts"} ELSE {"tools"})]
  /\ RLock(s)
  /\ mpc' = [mpc EXCEPT ![s] = "removed"]
  /\ UNCHANGED <<reloadVars, stopVars, cancelled, qpc, spc>>

\* Mutant: the loop goes on instead of closing done.
CloseDoneMissing(s) ==
  /\ mpc[s] = "remove"
  /\ lists[s] = {}
  /\ mpc' = [mpc EXCEPT ![s] = "select"]
  /\ UNCHANGED <<lockVars, reloadVars, stopVars, lists, cancelled, qpc, spc>>

\* close(done).
CloseDone(s) ==
  /\ mpc[s] = "remove"
  /\ lists[s] = {}
  /\ mpc' = [mpc EXCEPT ![s] = "done"]
  /\ UNCHANGED <<lockVars, reloadVars, stopVars, lists, cancelled, qpc, spc>>

\* onTableChange has the lock: refreshRoutingTable, RUnlock.
OnTableChange(s) ==
  /\ mpc[s] \in {"refresh", "removed"}
  /\ s \notin waiting
  /\ RUnlock(s)
  /\ mpc' = [mpc EXCEPT ![s] = IF @ = "refresh" THEN "manage" ELSE "remove"]
  /\ UNCHANGED <<reloadVars, stopVars, lists, cancelled, qpc, spc>>

-----------------------------------------------------------------------------
(* Requests that read the registry *)

\* IsReady, ValidateAllServers, GetServerInfo, handleDiscoverTools,
\* handleSelectTools, handleListTags, handleFilterToolsByTags ...
RequestRLock(q) ==
  /\ qpc[q] = "idle"
  /\ RLock(q)
  /\ qpc' = [qpc EXCEPT ![q] = "read"]
  /\ UNCHANGED <<reloadVars, stopVars, managerVars, cancelled, spc>>

\* The four handlers compute the visible tools under the lock; with an
\* x-mcp-authorized header findServerByName calls RLock again.
findServerByName(q) ==
  /\ qpc[q] = "read"
  /\ q \notin waiting
  /\ TRUE \in Authorized
  /\ RLock(q)
  /\ qpc' = [qpc EXCEPT ![q] = "nested"]
  /\ UNCHANGED <<reloadVars, stopVars, managerVars, cancelled, spc>>

RequestRUnlock(q) ==
  /\ qpc[q] \in {"read", "nested"}
  /\ q \notin waiting
  /\ RUnlock(q)
  /\ qpc' = [qpc EXCEPT ![q] = IF @ = "nested" THEN "read" ELSE "idle"]
  /\ UNCHANGED <<reloadVars, stopVars, managerVars, cancelled, spc>>

-----------------------------------------------------------------------------
(* Shutdown stops every manager with the read lock held *)

ShutdownRLock(p) ==
  /\ spc = "idle"
  /\ RLock(p)
  /\ spc' = "read"
  /\ UNCHANGED <<reloadVars, stopVars, managerVars, cancelled, qpc>>

ShutdownBegin(p) ==
  /\ spc = "read"
  /\ p \notin waiting
  /\ spc' = "stop"
  /\ toStop' = [toStop EXCEPT ![p] = mcpServers]
  /\ UNCHANGED <<lockVars, reloadVars, stopping, managerVars, cancelled, qpc>>

ShutdownRUnlock(p) ==
  /\ spc = "stop"
  /\ toStop[p] = {}
  /\ RUnlock(p)
  /\ spc' = "done"
  /\ UNCHANGED <<reloadVars, stopVars, managerVars, cancelled, qpc>>

-----------------------------------------------------------------------------
Init ==
  /\ writer = None /\ rcount = [p \in Procs |-> 0] /\ waiting = {}
  /\ reloadMu = None /\ mcpServers = {}
  /\ rpc = [r \in Reloads |-> "idle"] /\ toStop = [p \in Stoppers |-> {}]
  /\ stopping = [p \in Stoppers |-> None]
  /\ mpc = [s \in Servers |-> "done"] /\ lists = [s \in Servers |-> {}]
  /\ cancelled = {}
  /\ qpc = [q \in Requests |-> "idle"]
  /\ spc = "idle"

ReloadStep(r) ==
  \/ ReloadLock(r) \/ McpLockCall(r)
  \/ \E stale \in SUBSET Servers : deregisterStaleManagers(r, stale)
  \/ \E s \in Servers : StopBegin(r, s) \/ StopEnd(r, s)
  \/ StopsReturned(r)
  \/ \E new \in SUBSET Servers : startManagers(r, new)
  \/ \E new \in SUBSET Servers : startManagersSyncTags(r, new)

ManagerStep(s) ==
  \/ ManageBegin(s) \/ ManageEnd(s) \/ LoopCancelled(s)
  \/ \E l \in SUBSET {"tools", "prompts"} : ManageTableChange(s, l)
  \/ RemoveAll(s) \/ CloseDone(s) \/ OnTableChange(s)

RequestStep(q) == RequestRLock(q) \/ findServerByName(q) \/ RequestRUnlock(q)

ShutdownStep(p) ==
  \/ ShutdownRLock(p) \/ ShutdownBegin(p) \/ ShutdownRUnlock(p)
  \/ \E s \in Servers : StopBegin(p, s) \/ StopEnd(p, s)

Next ==
  \/ \E r \in Reloads : ReloadBegin(r) \/ ReloadStep(r)
  \/ \E s \in Servers : ManagerStep(s)
  \/ \E q \in Requests : RequestStep(q)
  \/ \E p \in Shutdowns : ShutdownStep(p)

Spec == Init /\ [][Next]_vars

\* Goroutines that can run do run.  Go's mutex hands reloadMu over in order and
\* its select chooses at random among ready cases, hence strong fairness for the
\* two; manage works through its lists and returns.
Fairness ==
  /\ \A r \in Reloads : WF_vars(ReloadStep(r)) /\ SF_vars(ReloadLock(r))
  /\ \A s \in Servers : /\ WF_vars(ManagerStep(s)) /\ SF_vars(LoopCancelled(s))
                        /\ SF_vars(ManageEnd(s))
  /\ \A q \in Requests : WF_vars(RequestRUnlock(q))

FairSpec == Spec /\ Fairness

-----------------------------------------------------------------------------
(* Properties *)

\* Lock state and program counters have their types; read holds are never negative.
TypeOK ==
  /\ writer \in Reloads \cup {None} /\ reloadMu \in Reloads \cup {None}
  /\ rcount \in [Procs -> Nat] /\ waiting \in SUBSET Procs
  /\ mcpServers \in SUBSET Servers
  /\ rpc \in [Reloads -> {"idle", "reloadMu", "lock1", "deregister", "stop", "lock3",
                          "start", "tags"}]
  /\ toStop \in [Stoppers -> SUBSET Servers]
  /\ stopping \in [Stoppers -> Servers \cup {None}]
  /\ mpc \in [Servers -> {"select", "manage", "refresh", "remove", "removed", "done"}]
  /\ lists \in [Servers -> SUBSET {"tools", "prompts"}]
  /\ cancelled \in SUBSET Servers
  /\ qpc \in [Requests -> {"idle", "read", "nested"}]
  /\ spc \in {"idle", "read", "stop", "done"}

\* Whom goroutine p waits for: the writer, for a blocked RLock; the read
\* holders, for a Lock; the manager, for a Stop; the holder of reloadMu.
Blockers(p) ==
  {q \in Procs :
     \/ p \in waiting /\ q = writer
     \/ p = writer /\ p \notin waiting /\ rcount[q] > 0
     \/ p \in Reloads /\ rpc[p] \in {"lock1", "lock3"} /\ q = writer
     \/ p \in Reloads /\ rpc[p] = "reloadMu" /\ q = reloadMu
     \/ p \in Stoppers /\ q = stopping[p] /\ mpc[q] # "done"}

\* No set of goroutines waits for itself: reloads, manager loops, requests and
\* Shutdown never block each other for good on mcpLock, reloadMu and Stop.
NoDeadlock ==
  \A D \in (SUBSET Procs) \ {{}} : \E p \in D : Blockers(p) \cap D = {}

\* Phase 3 never starts a manager for a server whose previous manager still
\* runs: the reason given in OnConfigChange for reloadMu and for stopping
\* strictly before starting.
StartsAfterStop ==
  \A r \in Reloads : rpc[r] \in {"lock3", "start"} =>
    \A s \in Servers \ mcpServers : mpc[s] = "done"

\* Every configuration reload comes to its end and every request that reads the
\* registry gets its answer, while reloads keep coming and managers are stopped.
Busy(p) == IF p \in Reloads THEN rpc[p] # "idle" ELSE qpc[p] # "idle"
EveryoneServed == \A p \in Reloads \cup Requests : Busy(p) ~> ~Busy(p)

=============================================================================
