--------------------------- MODULE UpstreamManager ---------------------------
(***************************************************************************)
(* A manager loop of ToolRegistry together with the client it uses         *)
(* (internal/broker/upstream): the events that wake it (manager.go), the   *)
(* session to the upstream (mcp.go) and the goroutine that watches the     *)
(* upstream's notification stream (notification_watcher.go).  ToolRegistry *)
(* lets a list arrive, or a connection fail, whenever the loop is idle;    *)
(* here its steps are taken where the code takes them, between a ping that *)
(* succeeds and the prompts that come next, while notifications arrive,    *)
(* sessions are lost and the manager is stopped.                           *)
(*                                                                         *)
(* An upstream lists one valid prompt, none that is valid, or does not     *)
(* declare the prompts capability at all.  Prompts have a registry of      *)
(* their own and are added and deleted like tools, here in one step.       *)
(***************************************************************************)
EXTENDS ToolRegistry

CONSTANTS Sessions,      \* names for the sessions of an upstream, reused
          Listings,      \* the tool lists upstreams choose from
          MaxIncidents   \* bound: changed prompts, notifications, lost sessions, failed requests

ASSUME ManagerAssumption ==
  /\ Sessions # {} /\ None \notin Sessions
  /\ Listings \subseteq ToolList /\ MaxIncidents \in Nat

VARIABLES
  cpc,             \* what the loop is about to do
  event,           \* the event manage was called with
  pending,         \* what the channels hold: "tools" in toolEvents, "prompts" in promptEvents
  session,         \* up.session
  known,           \* the sessions the upstream knows (external)
  watched,         \* up.watcher, by the session it watches
  watcher,         \* the watch goroutine of each session
  supportsPrompts, \* up.init: has the session's upstream declared prompts?
  upstreamPrompts, gwPrompts,   \* what the upstream lists (external); is it served?
  toolErr, ready,  \* manage's toolErr; status.Ready
  unheeded,        \* a tools notification has come since tools were last listed
  missed,          \* an attempt to list tools has failed since
  incidents

clientVars == <<session, known, watched, watcher, supportsPrompts>>
promptVars == <<upstreamPrompts, gwPrompts>>
statusVars == <<toolErr, ready>>
noticeVars == <<unheeded, missed>>
ownVars == <<cpc, event, pending, clientVars, promptVars, statusVars, noticeVars, incidents>>
allVars == <<vars, ownVars>>

Lists == {"tools", "prompts"}
Watching == {"get", "stream"}
PromptLists == {"unsupported", "valid", "invalid"}
At(s, pc) == cpc[s] = pc /\ mpc[s] = "select"
Goto(s, pc) == cpc' = [cpc EXCEPT ![s] = pc]
Incident == incidents < MaxIncidents /\ incidents' = incidents + 1

UInit ==
  /\ Init /\ \A s \in Servers : upstreamTools[s] \in Listings
  /\ cpc = [s \in Servers |-> "loop"] /\ event = [s \in Servers |-> "tick"]
  /\ pending = [s \in Servers |-> {}]
  /\ session = [s \in Servers |-> None] /\ known = [s \in Servers |-> {}]
  /\ watched = [s \in Servers |-> None]
  /\ watcher = [s \in Servers |-> [n \in Sessions |-> "exited"]]
  /\ supportsPrompts = [s \in Servers |-> FALSE]
  /\ upstreamPrompts = [s \in Servers |-> "valid"] /\ gwPrompts = [s \in Servers |-> FALSE]
  /\ toolErr = [s \in Servers |-> FALSE] /\ ready = [s \in Servers |-> FALSE]
  /\ unheeded = [s \in Servers |-> FALSE] /\ missed = [s \in Servers |-> FALSE]
  /\ incidents = 0

-----------------------------------------------------------------------------
(* The upstream, and its notifications *)

ChangeTools(s, l) == UpstreamChange(s, l) /\ UNCHANGED ownVars

\* The upstream's prompts change.  Capabilities are declared when a session begins:
\* an upstream that starts or ceases to support prompts is one that was restarted.
ChangePrompts(s, l) ==
  /\ Incident
  /\ l # upstreamPrompts[s]
  /\ upstreamPrompts' = [upstreamPrompts EXCEPT ![s] = l]
  /\ known' = IF "unsupported" \in {l, upstreamPrompts[s]} THEN [known EXCEPT ![s] = {}] ELSE known
  /\ UNCHANGED <<vars, cpc, event, pending, session, watched, watcher, supportsPrompts,
                 gwPrompts, statusVars, noticeVars>>

\* The upstream forgets a session: it is restarted, or the session expires.
ForgetSession(s) ==
  /\ Incident
  /\ known[s] # {} /\ known' = [known EXCEPT ![s] = {}]
  /\ UNCHANGED <<vars, cpc, event, pending, session, watched, watcher, supportsPrompts,
                 promptVars, statusVars, noticeVars>>

Noticed(s, m) ==
  /\ unheeded' = [unheeded EXCEPT ![s] = @ \/ m = "tools"]
  /\ missed' = [missed EXCEPT ![s] = @ /\ m # "tools"]

\* Mutant: toolEvents has no buffer, and a notification that comes while manage
\* runs finds nobody who receives.
notifyUnbuffered(s, m) ==
  /\ pending' = [pending EXCEPT ![s] = IF At(s, "loop") THEN @ \cup {m} ELSE @]
  /\ Noticed(s, m)

\* The handler of registerCallbacks: one event of a kind is kept, more are dropped.
notify(s, m) ==
  /\ pending' = [pending EXCEPT ![s] = @ \cup {m}]
  /\ Noticed(s, m)

\* A notification comes with the answer of a request under way.
NotifiedByRequest(s, m) ==
  /\ At(s, "ping") \/ At(s, "list")
  /\ session[s] \in known[s]
  /\ Incident /\ notify(s, m)
  /\ UNCHANGED <<vars, cpc, event, clientVars, promptVars, statusVars>>

-----------------------------------------------------------------------------
(* The watch goroutine *)

WatcherTo(s, n, st) ==
  /\ watcher' = [watcher EXCEPT ![s][n] = st]
  /\ UNCHANGED <<vars, cpc, event, pending, session, known, watched, supportsPrompts,
                 promptVars, statusVars, noticeVars, incidents>>

\* The GET opens a stream, or no stream is offered; after any other outcome, and a
\* pause, it is tried again.
WatchGet(s, n) ==
  /\ watcher[s][n] = "get"
  /\ (n \in known[s] /\ WatcherTo(s, n, "stream")) \/ WatcherTo(s, n, "exited")

\* consumeStream and dispatch: the upstream sends what it likes when it likes.
WatchDispatch(s, n, m) ==
  /\ watcher[s][n] = "stream"
  /\ Incident /\ notify(s, m)
  /\ UNCHANGED <<vars, cpc, event, clientVars, promptVars, statusVars>>

\* The stream ends, and what is sent meanwhile is lost; the watcher pauses and
\* tries again.
WatchReconnects(s, n) == watcher[s][n] = "stream" /\ WatcherTo(s, n, "get")

\* Mutant: reading the stream is not interrupted by the context.
WatchCancelledNotReading(s, n) ==
  /\ watcher[s][n] = "get" /\ (watched[s] # n \/ cancelled[s] # "no")
  /\ WatcherTo(s, n, "exited")

\* Its context ends by stopNotificationWatcher or with the manager's.
WatchCancelled(s, n) ==
  /\ watcher[s][n] \in Watching /\ (watched[s] # n \/ cancelled[s] # "no")
  /\ WatcherTo(s, n, "exited")

-----------------------------------------------------------------------------
(* The loop of a manager and one call of manage *)

\* Start calls manage once, then for every event.  The ticker may fire whenever the
\* loop waits; resetTicker drops a tick that came while manage ran.
TakeEvent(s, e) ==
  /\ \/ At(s, "start") /\ e = "tick"
     \/ At(s, "loop") /\ e \in pending[s] \cup {"tick"}
  /\ pending' = [pending EXCEPT ![s] = @ \ {e}]
  /\ event' = [event EXCEPT ![s] = e]
  /\ \/ manageDisabled(s) /\ Goto(s, "disconnect")
     \/ kind[s] # "disabled" /\ Goto(s, "connect") /\ UNCHANGED vars
  /\ UNCHANGED <<clientVars, promptVars, statusVars, noticeVars, incidents>>

\* startNotificationWatcher: the session gets a watcher.  The name of a session is
\* used again when its watcher has ended.
NewSession(s) ==
  LET n == CHOOSE n \in Sessions : watcher[s][n] = "exited"
  IN /\ session' = [session EXCEPT ![s] = n] /\ known' = [known EXCEPT ![s] = {n}]
     /\ watched' = [watched EXCEPT ![s] = n]
     /\ watcher' = [watcher EXCEPT ![s][n] = "get"]
     /\ supportsPrompts' = [supportsPrompts EXCEPT ![s] = upstreamPrompts[s] # "unsupported"]

\* A session is kept; otherwise one is made.
Connect(s) ==
  /\ At(s, "connect") /\ Goto(s, "ping")
  /\ \/ session[s] # None /\ UNCHANGED clientVars
     \/ session[s] = None /\ NewSession(s)
  /\ UNCHANGED <<vars, event, pending, promptVars, statusVars, noticeVars, incidents>>

\* A request fails since the manager is stopped or the session is not known, or it
\* is one of the incidents.
RequestFails(s) ==
  IF cancelled[s] # "no" \/ (session[s] # None /\ session[s] \notin known[s])
  THEN UNCHANGED incidents ELSE Incident

ListMissed(s) == missed' = [missed EXCEPT ![s] = @ \/ (unheeded[s] /\ event[s] # "prompts")]

ConnectionFails(s) ==
  /\ (At(s, "connect") /\ session[s] = None) \/ At(s, "ping")
  /\ RequestFails(s)
  /\ handleConnectionFailure(s) /\ Goto(s, "disconnect")
  /\ ListMissed(s)
  /\ UNCHANGED <<event, pending, clientVars, promptVars, statusVars, unheeded>>

\* manage returns, and its locals with it.
ManageReturns(s, ok) ==
  /\ ready' = [ready EXCEPT ![s] = ok]
  /\ event' = [event EXCEPT ![s] = "tick"]
  /\ toolErr' = [toolErr EXCEPT ![s] = FALSE]
  /\ Goto(s, "loop")

Ping(s) ==
  /\ At(s, "ping") /\ session[s] \in known[s]
  /\ \/ kind[s] = "userSpecific" /\ manageKeepsTools(s) /\ ManageReturns(s, TRUE)
     \/ /\ kind[s] = "enabled" /\ event[s] = "prompts"
        /\ manageKeepsTools(s) /\ Goto(s, "prompts") /\ UNCHANGED <<event, statusVars>>
     \/ /\ kind[s] = "enabled" /\ event[s] # "prompts"
        /\ Goto(s, "list") /\ UNCHANGED <<vars, event, statusVars>>
  /\ UNCHANGED <<pending, clientVars, promptVars, noticeVars, incidents>>

ListTools(s) ==
  /\ At(s, "list") /\ session[s] \in known[s]
  /\ getTools(s) /\ Goto(s, "tools")
  /\ unheeded' = [unheeded EXCEPT ![s] = FALSE] /\ missed' = [missed EXCEPT ![s] = FALSE]
  /\ UNCHANGED <<event, pending, clientVars, promptVars, statusVars, incidents>>

ListToolsFails(s) ==
  /\ At(s, "list") /\ RequestFails(s)
  /\ manageKeepsTools(s) /\ Goto(s, "prompts")
  /\ toolErr' = [toolErr EXCEPT ![s] = TRUE]
  /\ ListMissed(s)
  /\ UNCHANGED <<event, pending, clientVars, promptVars, ready, unheeded>>

\* The list is taken over or refused.
CommitTools(s) ==
  /\ manageTools(s)
  /\ toolErr' = [toolErr EXCEPT ![s] =
        \/ Rejected(fetched[s])
        \/ findToolConflicts(s, diffTools(tools[s], ValidateTools(fetched[s])).add) # {}]
  /\ UNCHANGED <<cpc, event, pending, clientVars, promptVars, ready, noticeVars, incidents>>

\* The changes of registry and table that follow, also at the end of the manager.
RegistryStep(s) ==
  /\ DeleteTools(s) \/ AddTools(s) \/ buildRoutingTable(s) \/ refreshRoutingTable(s)
  /\ UNCHANGED ownVars

AtPrompts(s) == At(s, "prompts") \/ At(s, "tools")

\* The valid prompts of a list.
ValidatePrompts(l) == l = "valid"

\* Mutant: a tick lists the tools only.
ManagePromptsNotified(s) ==
  /\ AtPrompts(s)
  /\ \/ ~(supportsPrompts[s] /\ event[s] = "prompts") /\ UNCHANGED gwPrompts
     \/ /\ supportsPrompts[s] /\ event[s] = "prompts" /\ session[s] \in known[s]
        /\ gwPrompts' = [gwPrompts EXCEPT ![s] = ValidatePrompts(upstreamPrompts[s])]
  /\ ManageReturns(s, ~toolErr[s])
  /\ UNCHANGED <<vars, pending, clientVars, upstreamPrompts, noticeVars, incidents>>

\* Prompts are listed if the session's upstream supports them, unless the event was
\* about tools; the valid ones are served.  Then setStatus.
shouldFetchPrompts(s) == supportsPrompts[s] /\ event[s] # "tools"

ManagePrompts(s) ==
  /\ AtPrompts(s)
  /\ \/ ~shouldFetchPrompts(s) /\ UNCHANGED gwPrompts
     \/ /\ shouldFetchPrompts(s) /\ session[s] \in known[s]
        /\ gwPrompts' = [gwPrompts EXCEPT ![s] = ValidatePrompts(upstreamPrompts[s])]
  /\ ManageReturns(s, ~toolErr[s])
  /\ UNCHANGED <<vars, pending, clientVars, upstreamPrompts, noticeVars, incidents>>

ListPromptsFails(s) ==
  /\ AtPrompts(s) /\ shouldFetchPrompts(s)
  /\ RequestFails(s)
  /\ ManageReturns(s, FALSE)
  /\ UNCHANGED <<vars, pending, clientVars, promptVars, noticeVars>>

-----------------------------------------------------------------------------
(* Disconnect, Stop and reloads *)

\* removeAllPrompts where it is due; then the watcher's context is cancelled.
stopNotificationWatcher(s) ==
  /\ At(s, "disconnect") \/ At(s, "stop")
  /\ gwPrompts' = [gwPrompts EXCEPT ![s] =
        @ /\ ~(cpc[s] = "disconnect" /\ (kind[s] = "disabled" \/ failures[s] >= MaxFailures))]
  /\ watched' = [watched EXCEPT ![s] = None]
  /\ Goto(s, IF cpc[s] = "stop" THEN "stopClose" ELSE "close")
  /\ UNCHANGED <<vars, event, pending, session, known, watcher, supportsPrompts,
                 upstreamPrompts, statusVars, noticeVars, incidents>>

\* Mutant: Disconnect does not wait for w.done.
WatcherDoneUnchecked(s) == TRUE

WatcherDone(s) == session[s] # None => watcher[s][session[s]] \notin Watching

\* up.init is not looked at again before the next session sets it.
CloseSession(s) ==
  /\ WatcherDone(s)
  /\ session' = [session EXCEPT ![s] = None]
  /\ known' = [known EXCEPT ![s] = @ \ {session[s]}]
  /\ supportsPrompts' = [supportsPrompts EXCEPT ![s] = FALSE]

\* The end of a call of manage that disconnects.
Disconnect(s) ==
  /\ At(s, "close")
  /\ CloseSession(s)
  /\ ManageReturns(s, FALSE)
  /\ UNCHANGED <<vars, pending, watched, watcher, promptVars, noticeVars, incidents>>

\* The loop finds its context cancelled ...
LoopDone(s) ==
  /\ At(s, "loop") /\ cancelled[s] = "cancelled"
  /\ Goto(s, "stop")
  /\ UNCHANGED <<vars, event, pending, clientVars, promptVars, statusVars, noticeVars, incidents>>

\* Nothing is left of a manager that ends: the next one has channels and a status
\* of its own.
Forget(s) ==
  /\ pending' = [pending EXCEPT ![s] = {}] /\ ready' = [ready EXCEPT ![s] = FALSE]
  /\ unheeded' = [unheeded EXCEPT ![s] = FALSE] /\ missed' = [missed EXCEPT ![s] = FALSE]

\* ... disconnects and removes prompts and tools.
LoopEnds(s) ==
  /\ At(s, "stopClose")
  /\ CloseSession(s)
  /\ LoopCancelled(s)
  /\ gwPrompts' = [gwPrompts EXCEPT ![s] = FALSE]
  /\ Forget(s)
  /\ UNCHANGED <<cpc, event, watched, watcher, upstreamPrompts, toolErr, incidents>>

ReloadStarts ==
  \E new \in SUBSET Servers, k \in [Servers -> Kinds] :
    /\ startManagers(new, k)
    /\ cpc' = [s \in Servers |-> IF s \in new THEN "start" ELSE cpc[s]]
    /\ UNCHANGED <<event, pending, clientVars, promptVars, statusVars, noticeVars, incidents>>

\* Reloads that find every server registered and unchanged are left to ToolRegistry.
ReloadStops ==
  /\ \/ \E stale \in SUBSET Servers : /\ stale # {} \/ mcpServers # Servers
                                      /\ deregisterStaleManagers(stale)
     \/ \E s \in Servers : StopCancel(s)
  /\ UNCHANGED ownVars

-----------------------------------------------------------------------------
Works(s) ==
  \/ \E e \in Lists \cup {"tick"} : TakeEvent(s, e)
  \/ Connect(s) \/ ConnectionFails(s) \/ Ping(s) \/ ListTools(s) \/ ListToolsFails(s)
  \/ CommitTools(s) \/ RegistryStep(s) \/ ManagePrompts(s) \/ ListPromptsFails(s)
  \/ stopNotificationWatcher(s) \/ Disconnect(s) \/ LoopEnds(s)

Watches(s, n) ==
  \/ WatchGet(s, n) \/ WatchReconnects(s, n) \/ WatchCancelled(s, n)
  \/ \E m \in Lists : WatchDispatch(s, n, m)

UpstreamActs(s) ==
  \/ \E l \in Listings : ChangeTools(s, l)
  \/ \E l \in PromptLists : ChangePrompts(s, l)
  \/ ForgetSession(s)
  \/ \E m \in Lists : NotifiedByRequest(s, m)

Manages ==
  \/ \E s \in Servers : UpstreamActs(s) \/ Works(s) \/ LoopDone(s)
  \/ \E s \in Servers, n \in Sessions : Watches(s, n)
  \/ ReloadStops \/ ReloadStarts

ManagerSpec == UInit /\ [][Manages]_allVars

\* The ticker ticks, goroutines run, requests return (they have timeouts), a watcher
\* notices that its context is cancelled, and select takes a ready ctx.Done in the end.
ManagerFairness ==
  /\ \A s \in Servers : /\ WF_allVars(Works(s)) /\ SF_allVars(LoopDone(s))
                        /\ WF_allVars(\E n \in Sessions : WatchCancelled(s, n))
  /\ WF_allVars(rpc = "stop" /\ (ReloadStops \/ ReloadStarts))

FairManagerSpec == ManagerSpec /\ ManagerFairness

-----------------------------------------------------------------------------
(* Properties *)

\* Client, event and status variables of a manager have their types, and up.watcher
\* is the watcher of up.session.
ManagerTypeOK ==
  /\ cpc \in [Servers -> {"start", "loop", "connect", "ping", "list", "tools", "prompts",
                          "disconnect", "close", "stop", "stopClose"}]
  /\ event \in [Servers -> Lists \cup {"tick"}]
  /\ pending \in [Servers -> SUBSET Lists]
  /\ session \in [Servers -> Sessions \cup {None}] /\ known \in [Servers -> SUBSET Sessions]
  /\ watched \in [Servers -> Sessions \cup {None}]
  /\ \A s \in Servers : watched[s] \in {None, session[s]}
  /\ watcher \in [Servers -> [Sessions -> Watching \cup {"exited"}]]
  /\ supportsPrompts \in [Servers -> BOOLEAN]
  /\ upstreamPrompts \in [Servers -> PromptLists] /\ gwPrompts \in [Servers -> BOOLEAN]
  /\ toolErr \in [Servers -> BOOLEAN] /\ ready \in [Servers -> BOOLEAN]
  /\ unheeded \in [Servers -> BOOLEAN] /\ missed \in [Servers -> BOOLEAN]
  /\ incidents \in 0 .. MaxIncidents

\* Session, watcher and status agree, across lost sessions, reconnects and restarts:
\* a watch goroutine runs only for the session the manager has or is closing ("At
\* most one watcher per connected session"), a server reported Ready has a session
\* that answers, and a manager that was stopped has no session and serves no prompt.
ClientConsistent ==
  \A s \in Servers :
    /\ \A n \in Sessions : watcher[s][n] \in Watching => session[s] = n
    /\ At(s, "loop") /\ ready[s] => kind[s] # "disabled" /\ session[s] # None /\ failures[s] = 0
    /\ mpc[s] = "done" => session[s] = None /\ watched[s] = None /\ ~gwPrompts[s]

\* No notification is lost between the watcher and the loop: when the loop waits for
\* events and none about tools is pending, tools have been listed after the last
\* notification, or the attempt to has failed, however many notifications came while
\* manage was busy and were dropped at the full channel.
NoticeHeeded ==
  \A s \in Servers :
    At(s, "loop") /\ kind[s] = "enabled" /\ unheeded[s] /\ "tools" \notin pending[s] => missed[s]

\* Stop returns: no manager stays cancelled for ever without ending, although it may
\* be in a request, in its failure handling or about to wait for a watcher that has a
\* stream open.  (One that is cancelled stays so until it has ended.)
StopReturns == \A s \in Servers : []<>(cancelled[s] = "no" \/ mpc[s] = "done")

\* Of an upstream that stays configured and in the end supports prompts, exactly the
\* valid prompts it lists are served in the end, also when it is restarted with other
\* capabilities on the way and every notification about prompts is lost.  (The prompts
\* of one that comes back without the capability are not looked at again and stay
\* served until the manager stops or loses its upstream for good.)
PromptsBecomeFresh ==
  \A s \in Servers :
    <>[](s \in mcpServers /\ kind[s] = "enabled" /\ upstreamPrompts[s] # "unsupported")
      => <>[](gwPrompts[s] = ValidatePrompts(upstreamPrompts[s]))

=============================================================================
