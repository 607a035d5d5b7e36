# TLA+ models of the MCP/A2A gateway

The repository is a gateway in front of MCP servers and A2A agents. Envoy sends every
request through an external processor (`internal/mcp-router`), which routes it with the
tables of `internal/routing`. The broker (`internal/broker`, `internal/a2a`) federates
tool lists and agent cards from the upstreams. Controllers (`internal/controller`) turn
Kubernetes resources into a configuration secret that the broker and router watch.

This directory holds TLA+ modules for the parts whose correctness depends on the order
in which goroutines, reloads, reconciles and answers interleave, TLC instances of them,
and TLAPS proofs. `PROJECT.json` maps every definition to the lines it models and lists
the hazards with the properties that cover them.

## Parts

| Part | Module | What is hard | Correct means |
|---|---|---|---|
| A2A card cache (`internal/a2a`) | `A2ABroker` | reloads are not serialised; fetches outlive reloads; several locks | only conforming cards of the registered upstream are cached or served; the catalog converges |
| Broker locks (`broker.go`, `tags_handler.go`, `filtered_tools_handler.go`) | `BrokerLocks` | Go's RWMutex blocks readers behind a waiting writer | nobody waits in a circle; a manager starts after its predecessor has ended |
| Tool registry (`upstream/manager.go`, `gateway_server.go`, `routing_table.go`) | `ToolRegistry` | check-then-act between managers; deletion by name; concurrent refreshes | registry, lists and table agree; tools go only for a reason |
| Upstream client and watcher (`upstream/mcp.go`, `notification_watcher.go`) | `UpstreamManager`, on top of `ToolRegistry` | watcher against disconnect; dropped and lost notifications; Stop in the middle of a request | one watcher; nothing left behind; lists become fresh; Stop returns |
| Config secret (`config_writer.go`) | `BrokerConfig`, `ConfigStore` (abstract), `ConfigWriter` | concurrent read-modify-write from caches that lag, bounded retries | operations take effect as a whole, on the content there is |
| Registrations (`internal/controller`) | `Registration` | informers in any order, partial fan-out, ownership hand-over, restarts | the secrets agree with the resources; nothing is left of what is gone |
| Gateway extensions (`internal/controller`) | `GatewayExtension` | conflicts judged on old copies; ten writes that may stop anywhere | one owner per port and namespace; Ready means programmed |
| Router, session cache, elicitation (`internal/routing`, `session`, `idmap`, `elicitation`, `mcp-router`) | `Router` | lazy initialisation, timers, late answers, two processes on one Redis | a request uses its own session and the token supplied for it; sessions end |
| Gateway sessions (`session_resurrection.go`, `http_compat.go`, `discovery_scope.go`, `user_specific_tools.go`, `gateway_server.go`) | `GatewaySessions` | restarts and idle sessions under valid JWTs; requests on a session that closes | one server session per client; what it set up is released; clients are told of changes |

The controllers write the secret through `ConfigWriter`; `Registration` uses the writer as
`ConfigStore` describes it, and `GatewayExtension` provides the extensions whose secrets
`Registration` fills. A changed secret is a load in `A2ABroker`, a reload in `BrokerLocks`,
`ToolRegistry` and `UpstreamManager`, and a changed set of servers in `Router`. `Router`
and `GatewaySessions` share the session cache: the former has the sessions the router
initialises, the latter those of the broker's user-specific lists.

## Modules

An `MC...` module gives the constants of a run; a `...Proofs` module holds the theorems.
Operators marked "Mutant" are plausible mistakes in the code: putting one in the place of
the definition that follows it makes the property named in `PROJECT.json` fail.

### A2ABroker

`config.Notify` starts one goroutine per reload (`Reloads`); each may leave a fetcher
behind, and the ticker is one more. `b.mu` and the store's lock make single steps atomic.

| Code | Model |
|---|---|
| `loadConfig` | `LoadAgents`, `LoadCAAndNotify` (two setters, two locks) |
| `OnConfigChange`, `SetAgents`, `evictStaleCards` | `OnConfigChangeTrust`, `OnConfigChangeList`, `SetAgentsSwap`, `EvictList`, `EvictDelete`, `EvictDone` |
| `refreshNewCards`, `refreshAll` | `RefreshNewScan`, `RefreshNewSpawn`, `RefreshAll` |
| `refreshCard`, `clientFor` | `FetchBegin`, `FetchPrev`, `FetchClient`, `FetchAnswer`, `FetchFails`, `FetchCommit`, `FetchEnd` |
| `storeIfCurrent`, `failCardValidation` | operators of `FetchCommit` |
| `ServeAgentCard`, `ServeAPICatalog` | `RequestCard`, `CheckRejected`, `GetCard`, `RequestDone`; `Catalog`. A refusal ends the request |

Assumed: an upstream uses entity tags, modification dates or neither; a tag names one
version at one URL; a routing key has one registration. A card is a value, and whether it
fits a key's path and the gateway's host is given by constants. `CommitFromRegisteredURL`
is checked and proved for entity tags that no two upstreams share; with modification dates
it does not hold (`A2ABrokerLastModified.cfg`).

### BrokerLocks

`RLock`, `RUnlock`, `LockCall`, `LockGranted` and `Unlock` describe `sync.RWMutex`: a writer
that waits blocks new readers. Actors are reloads, manager loops, requests and Shutdown.
`TagConfigs`, `Authorized` and `Shutdowns` switch the paths that take `mcpLock` twice or
wait with it held. `NoDeadlock` says that no non-empty set of processes waits for itself.

### ToolRegistry

A manager walks through `select` (its loop), `diff` (a list was received), `delete`, `add`
and the table refreshes `build...`/`store...` after each change of the registry.

| Code | Model |
|---|---|
| `manage` up to the list | `manageDisabled`, `handleConnectionFailure`, `manageKeepsTools`, `getTools` |
| validation, `diffTools`, `findToolConflicts`, commit | `manageTools` |
| `removeAllTools` | operator; the deletion follows as `DeleteTools` |
| `gatewayServer.DeleteTools`, `AddTools` | the actions of that name |
| `onTableChange` | `buildRoutingTable`, `refreshRoutingTable` |
| `OnConfigChange`, `Stop` | `deregisterStaleManagers`, `StopCancel`, `LoopCancelled`, `startManagers` |

Names are served names, prefix included. A list may arrive at any time, since the ticker
re-lists whatever the notifications do. A table is built in one step although the code
reads one manager after the other; no property that holds depends on it. `fetched` keeps
the last answer after its use, so that `DropsJustified` can refer to it. Left out: prefix
routes of user-specific servers, and the table built on the first lookup before any reload.

### UpstreamManager

Extends `ToolRegistry`: its steps are taken where the code takes them, after a connect or
a ping that succeeds and before the prompts, driven by events.

| Code | Model |
|---|---|
| `MCPManager.Start` | `TakeEvent` (the select), `LoopDone`, `LoopEnds` |
| `manage` | `Connect`, `ConnectionFails`, `Ping`, `ListTools`, `ListToolsFails`, `CommitTools`, `RegistryStep`, `ManagePrompts`, `ListPromptsFails`; `ManageReturns` is `setStatus` with the backoff |
| `handleConnectionFailure`, `Disconnect` | `stopNotificationWatcher`, `Disconnect` |
| `registerCallbacks` | `notify`: a channel of one entry for each kind of list, further sends dropped |
| `notificationWatcher` | `WatchGet` (request and pause), `WatchDispatch`, `WatchReconnects`, `WatchCancelled` |
| `OnConfigChange` | `ReloadStops`, `ReloadStarts` |
| the upstream | `ChangeTools`, `ChangePrompts`, `ForgetSession`, `NotifiedByRequest` |

A tick is taken only while the loop waits, since `resetTicker` drops any other. An
upstream's prompts are valid, invalid or not supported (`PromptLists`); `Connect` keeps what
it declared (`supportsPrompts`), and `ManagePrompts` lists only if it did and serves what
`ValidatePrompts` leaves. Prompts are registered in one step. Prompts served before the
upstream reconnected without the capability stay served, so `PromptsBecomeFresh` is about
upstreams that have it in the end. Reloads that find everything unchanged are left to `ToolRegistry`.

### BrokerConfig, ConfigStore, ConfigWriter

`BrokerConfig` has the content of a secret and what each operation makes of it.
`ConfigStore` is what callers may rely on: content changes by whole operations, at most
once per secret and call, and only while the caller waits. `ConfigWriter` is the code: a
read of the informer's copy, a create, or an update that is refused unless the copy is the
latest version, up to `retry.DefaultBackoff.Steps` times; requests that fail, with or
without effect; restarts of the controller. `WholeOperations` is `ConfigStore`'s
specification under the mapping that forgets versions, caches and copies.

### Registration

The controllers of `A2AAgentRegistration`, `MCPServerRegistration` and `MCPVirtualServer`,
one `kind` per behaviour; they share no state but the secrets. `Begin` takes an item from the queue and reads it;
`CheckGrant`, `CheckPrefix`, `Resolve`, `Upsert`, `Withdraw`, `Release`, `UpdateStatus`,
`UpdateHTTPRouteStatus`, `Generate` and `WriteVirtualServers` are the stretches of
`Reconcile` between two requests to the API server. `Deliver` brings one informer copy up
to date and enqueues what the controller's map functions say. All registrations target one
HTTPRoute and refer to one credential. `"lag"` lets the informer's copy of the secrets lag.

Of the controller of `MCPGatewayExtension` the module has what meets the registrations:
`ExtensionBegins` empties the secret of an extension that is deleted, and of one without a
reference grant on every reconcile; `ExtensionReports` updates the status or takes the
finalizer off, which enqueues the extension again. `"consent"` is that grant. The second
wipe may erase virtual servers written since, so `Settled` speaks of them for valid
extensions only. `overlooked` remembers the entries whose write or removal was left out
because an old copy of the secret made it look unnecessary: `FinalizerGuardsConfig` and
`Settled` except them, and `RegistrationLag.cfg` shows one that stays behind. A status
write fails only by a conflict. Unless `"flicker"` is switched on, a deleted grant is not
created anew before the extensions that need it have reported its lack.

### GatewayExtension

One worker of the `MCPGatewayExtension` controller. `CheckNamespaceConflict`,
`ValidateGatewayTarget` (with the listener conflict and the reference grant),
`ReconcileSecrets`, the broker-router resources, `ReconcileEnvoyFilter`,
`UpdateGatewayListenerStatus` and `UpdateStatus` follow `reconcileActive`. Of a Kubernetes object the model keeps
what the controller manages (as a function of the extension's specification), whether
users have added to it, and its owner; the garbage collector removes what lost its owner.
Signing keys are numbered, so that a new one differs from all before it; the secret is read
(`ReadSigningKey`) and written (`ReconcileSecrets`) in two steps, and a write to a secret
that changed in between is refused. `Managed` is `HTTPRouteDisabled`: with route management
off both HTTPRoutes are left as they are. All extensions target one gateway.

### Router

One behaviour is one situation (`Worlds`): which requests, users, processes and events
there are, and whether state is kept in memory or in Redis. A request goes through routing
(`RouteToolCall`, `RoutePromptGet`, `RouteBrokerPassthrough`, `RouteElicitationResponse`),
token resolution (`ResolveUpstreamToken`, `Purge`, `StoreElicitation`), initialisation
(`InitGroupDo`, `CheckAgain`, `Prepare`, `Connect`, `CheckExpiry`, `StoreSession`, with
followers that wait), the upstream's answer and its handling (`HandleNotFound`,
`HandleUnauthorized`, `HandleSuccess`, `Rewrite`, `EndStream`, `Abort`). `SessionCloser` is
the timer of a backend session; `OpenForm`, `SubmitForm` and `StoreToken` are the token
page. In Redis every operation may fail; a process may die. Closing a backend session is
tried once and may fail, which the code only logs: the session then stays with the upstream
("left"), and `OpenAccounted` and `SessionsEnd` say that `Close` was tried. `Sub` is the
subject of the request's JWT, which may be missing or broken; an entry without one may be
used by anyone who has its URL (`tokens.go:155-166`, `tokens_test.go:336-355`), so
`TokensOfOwner` speaks of the user only where the entry has a subject. A hash kept in
memory is copied, changed and stored under `innerMu`, here in one step.

### GatewaySessions

Situations as in `Router`. `ServePOST`, `ServeGET`, `ServeDELETE`, `ServeInitialize` are
the compatibility layer; `ServeLive`, `ServeNext`, `Resurrect`, `Serve`, `EndRequest`,
`TimerFires`, `TimerCloses`, `Unlink` the resurrection handler; `OnGatewaySessionEnd` the
cleanup; `Fetch`, `Connect`, `Store`, `ListTools`, `Failed`, `Remember` the user-specific list;
`HandleSelectTools` with `SetScope` and `ResetScope` the scopes; `MarkNotifyTarget`, `MarkBroadcast`,
`shouldDeliver`, `NotifyTargetMiddleware` the targeted notifications. Of the SDK the
model assumes that `ServerSession.Close` refuses new calls and lets those under way finish,
that `Wait` returns only afterwards, and that list changes are debounced into one dispatch
that ends within `notifyWindow` (`gateway_server.go:39`). A request's field `met` records
whether its session was closing at some time while the request was under way, by the idle
timer or a DELETE; `RefusedOnlyByClose` says that a valid JWT is refused only then.

## Runs

| Run | Question | Result |
|---|---|---|
| `a2a_safety` | two overlapping reloads, ticker, request; an agent that moves or is removed | holds |
| `a2a_liveness` | does the catalog converge to what the upstream publishes, an agent being moved, disabled or removed? | holds |
| `locks_safety` | stop before start, with every path that nests locks switched on | holds |
| `locks_free` | deadlock without nesting; does everyone get through? | none; yes |
| `locks_tags` | deadlock where a configuration adds or drops the last tag | found |
| `registry_safety` | two managers: nothing served for, and no route to, one that is gone; reasons for removal, invalid tools under RejectServer | holds |
| `upstream_manager` | one manager with its client: sessions, watcher and status agree; no notification lost; tool names and valid prompts settle; Stop returns | holds |
| `config_writer` | does the writer implement `ConfigStore`? | yes |
| `registration` | a finalizer goes only after the entries; quiet means settled; quiet is reached, each up to the writes left out on an old copy | holds |
| `extension` | one owner per port and namespace, matching key pairs, Ready means programmed, the listener's condition included, no signing key replaced and nothing of the users' overwritten, a valid extension gets programmed | holds |
| `router` | own sessions, own tokens, `Close` tried on every session, everyone answered, expired sessions end | holds |
| `sessions` | one server session per client, valid JWTs refused only while the session closes, user sessions accounted for with current headers, clients told, what was set up released, nobody stuck | holds |

`locks_tags` is a disagreement between the code and a comment of the repository that
`PROJECT.json` quotes under `findings`. `NoDeadlock` also fails with `Authorized = {TRUE}`
(the read lock taken twice, `filtered_tools_handler.go:176`) and with a `Shutdowns` process
(`broker.go:648`). More configurations show where the code differs from a comment, a document or a property:

| Configuration | Expectation of | What the code does |
|---|---|---|
| `A2ABrokerReorder.cfg` | `a2a/broker.go:57-59`: the index mirrors the configuration | the older of two overlapping reloads may finish last |
| `A2ABrokerLastModified.cfg` | `a2a/manager.go:56-57, 110`: a 304 confirms the upstream's card | the old upstream's date is sent to the new upstream |
| `ToolRegistryConflict.cfg` | `docs/design/prompts-federation.md:284`: conflicts are refused | check and add are not atomic (`upstream/manager.go:442`) |
| `ToolRegistryTable.cfg` | `routing_table.go:68-72`: the table reflects the managers | of two concurrent refreshes the older table may be stored last |
| `ToolRegistryDefinitions.cfg` | `docs/design/backend-mcp-management.md:98`: the tick bounds staleness | a changed definition is never noticed: tools are compared by name (`upstream/manager.go:777`) |
| `RegistrationFlicker.cfg` | `QuietMeansSettled` where a grant comes back at once | a registration reconciled while the extension's grant is gone reports no extension, and the grant's return does not enqueue it (no watch on the extension's ReferenceGrant) |
| `RegistrationLag.cfg` | `a2aagentregistration_controller.go:73`: "config must be cleaned up before the finalizer comes off" (`NothingLeftBehind`) | secrets are listed from a cache that may lag (`config_writer.go:208-242`) |
| `GatewayExtensionRetarget.cfg` | `docs/design/isolated-gateway-deployment.md:137`: the oldest owns the port | an older extension that leaves a port and comes back within one reconcile does not enqueue the younger one (`mcpgatewayextension_controller.go:436, 534-541`) |

A type invariant is defined in every module. Where it is proved it is not checked by a run
as well; those of `Registration`, `GatewayExtension` and `GatewaySessions` hold on the
instances of their runs.

### Bounds

- A2A: `MaxLoads = 2`, two reload goroutines (one reload overtaking another needs two);
  `MaxClock = 2`, an old and a new version of a card; one key, since keys share no state
  other than host and trust.
- Locks: two reloads (one waits for `reloadMu`), two managers, one request.
- Registry: two servers with a name each; one change; the code's three failures.
- Upstream manager: one server, two names, two session names (a watcher of the last session
  beside the current one), two failures, two incidents (lost notification, forgotten
  session). Managers meet only in the registry, which `ToolRegistry` has with two.
- Config writer: two writers, two namespaces, the code's four tries, three calls, one
  failure. A conflict needs two writers; a call can be refused on each of its tries.
- Registration: two resources, two gateways and namespaces, two events, one failure: a
  hand-over needs two gateways, a withdrawal that fails half way needs one failure.
- Extensions: three extensions (an owner, a rival for its port, a rival for its
  namespace), three listeners on two ports, two events, one failure.
- Router and sessions: up to three requests (a leader, a follower, one of another session),
  two sessions, two servers, two token forms, two processes, one failure. Each situation in
  `MCWorlds` combines the events that interact; all at once are out of TLC's reach.

Deadlock checking is off where the system may stop: `BrokerLocksSafety.cfg`, where the
known deadlocks really stop it, and the runs in which nothing is left to do once the
bounded loads, calls, events and requests are used up.

### Fairness

- A goroutine that can run does run (weak fairness of its steps), and tickers keep ticking.
- Go's `select` chooses at random among ready cases, so a ready `ctx.Done` is taken in the
  end: strong fairness of `LoopCancelled` and `LoopDone`.
- Go's mutexes hand over to a starving waiter: strong fairness of `ReloadLock`.
- An upstream asked again and again answers in the end (strong fairness of `FetchAnswer`
  and of the listings). This is an assumption about the environment; a single request may
  still fail, and without it nothing can be said of convergence.
- Controllers: the worker runs (weak fairness of a reconcile's steps), the work queue is
  first in, first out (strong fairness of `Begin` for each item), the extensions' worker runs
  as well, each informer delivers in
  the end (weak fairness per object and per secret), and Kubernetes brings a deployment up.
- Router and sessions: request steps, timers, Redis's expiry and the SDK's dispatches go on
  (weak fairness of `Progress`). Nothing is assumed of clients, users and failures.

## Proofs

The theorems hold for all sets of keys, servers, names, reloads, requests, sessions,
writers and namespaces and all bounds, from the named assumptions of the modules
(`A2AAssumption`, `LocksAssumption`, `RegistryAssumption`, `ManagerAssumption`,
`WriterAssumption`: kinds of actors are disjoint, `None` is not a value, bounds are
naturals).

- `A2ABrokerProofs`: `TypeCorrect`, `RejectionSafe`, `RejectionsRegistered`, `StoreBounded`,
  `ConformingOnly`, `ServesConforming`, and, where no upstream validates by modification
  date, `CommitsComeFromUpstream`. The inductive invariant `IInv` adds to the properties
  that the host is known once an agent is registered (`HostKnown`), that a reload spawns
  its fetcher last (`SpawnLast`) and that the entry a fetch carries conforms
  (`PrevConforms`): a 304 stores that entry again.
- `BrokerLocksProofs`: `LocksTypeCorrect`, `StopsBeforeStarts`, and `DeadlockFree` where
  nobody takes `mcpLock` twice and Shutdown is not running (`NoNesting`). The invariant
  counts the read holds of every process by its program counter (`Holds`) and says that
  reload phases are serial (`Serial`). Without nesting, whoever holds the lock can go on,
  so a circle is impossible.
- `ToolRegistryProofs`: `RegistryTypeCorrect`, `NoOrphans`, `TableRoutesRegistered` for all
  configurations; `ListedServed` and `DropsHaveReason` where no two servers offer the same
  name (`Distinct`). `Managers` ties pending additions and deletions to a manager's place,
  `Running` says that a manager that is not registered has ended or is waited for, and
  `BuiltRegistered` that a table about to be stored names registered servers; without
  `Distinct` the last two theorems fail, as `ToolRegistryConflict.cfg` shows.
- `UpstreamManagerProofs`: the lemma `ManagerRefinesRegistry` says that the initial states
  are ToolRegistry's and that each step is a step of it or leaves its variables alone, as
  the actions are written; through it `ManagerLeavesNoOrphans` follows from `NoOrphans`.
  And
  `ManagerClientConsistent` and `ManagerHeedsNotices` from the inductive invariant `UInv`:
  what each statement of the loop may rely on (`LoopInv`), that a cancelled manager never
  returns to its loop and has nothing left (`EndInv`), that a watcher runs for the current
  session only (`WatchInv`), and that a notification not yet followed by a list is pending,
  is about to be followed by one, or its list has failed (`NoticeInv`).
- `ConfigWriterProofs`: `WriterTypeCorrect`, `VersionsAreContents` and
  `WriterImplementsStore`, the refinement of `ConfigStore`. Its core is that a version
  number determines a secret's content (`VersionsIdentify`), with copies no newer than the
  secret (`CopiesOld`): an update that the API server accepts was computed from the content
  it replaces.

Only model-checked: all liveness properties (fairness and ENABLED are beyond the prover) and
the properties of `Registration`, `GatewayExtension`, `Router` and `GatewaySessions`.
No module needs recursive operators.

## Not modelled

Tool hints, telemetry, the status and OAuth metadata endpoints, generated API types and the
set-up of processes: they transform data or wire parts together and keep no state that
steps of others could meet. Parsing and formatting (server-sent events, JSON-RPC, headers,
JWTs) appear as what they decide. `PROJECT.json` says for each component what was left out.

## Running

    tlc -config A2ABrokerSafety.cfg MCA2ABroker
    tlc -config UpstreamManager.cfg MCUpstreamManager
    tlc -config Router.cfg MCRouter
    tlapm A2ABrokerProofs.tla

`PROJECT.json` names the module and the configuration of each run.
