------------------------ MODULE UpstreamManagerProofs ------------------------
(***************************************************************************)
(* The session, the watcher and the status of a manager agree, and no       *)
(* notification is lost, for any number of servers, names and sessions.     *)
(* UpstreamManager is written on top of ToolRegistry: what                  *)
(* ToolRegistryProofs proves carries over to it.                            *)
(***************************************************************************)
EXTENDS UpstreamManager, ToolRegistryProofs, TLAPS

\* Nothing is left of the client of a manager that has closed its session for good.
Clean(s) == session[s] = None /\ watched[s] = None /\ gwPrompts[s] = FALSE

\* About to list tools.
Listing(s) == cpc[s] \in {"connect", "ping", "list"} /\ event[s] # "prompts"

\* The loop of s: what its next statement may rely on.
LoopInv(s) ==
  /\ cpc[s] \in {"connect", "ping", "list", "tools", "prompts"} => kind[s] # "disabled"
  /\ cpc[s] \in {"ping", "list", "tools", "prompts"} => session[s] # None
  /\ cpc[s] \in {"tools", "prompts"} => failures[s] = 0
  /\ cpc[s] = "list" => event[s] # "prompts"
  /\ cpc[s] \in {"close", "stopClose"} => watched[s] = None
  /\ cpc[s] = "loop" /\ ready[s] => kind[s] # "disabled" /\ session[s] # None /\ failures[s] = 0

\* The end of a manager: it is never back in its loop, and has nothing left.
EndInv(s) ==
  /\ cancelled[s] = "stopping" => mpc[s] \notin {"select", "diff"} /\ Clean(s)
  /\ mpc[s] = "done" => Clean(s)

\* A watcher runs for the session of the manager only.
WatchInv(s) == \A n \in Sessions : watcher[s][n] \in Watching => session[s] = n

\* A notification about tools is pending, or tools are going to be listed, or the
\* attempt has failed.
NoticeInv(s) ==
  kind[s] = "enabled" /\ unheeded[s] /\ "tools" \notin pending[s]
    => missed[s] \/ cpc[s] = "start" \/ Listing(s)

ClientInv(s) == LoopInv(s) /\ EndInv(s) /\ WatchInv(s) /\ NoticeInv(s)

UInv == ManagerTypeOK /\ \A s \in Servers : ClientInv(s)

-----------------------------------------------------------------------------
(* From ToolRegistry to UpstreamManager *)

LEMMA WorksImplement ==
  ASSUME NEW s \in Servers, Works(s)
  PROVE  [Next]_vars
<1>1. CASE \E e \in Lists \cup {"tick"} : TakeEvent(s, e)
  <2>1. manageDisabled(s) \/ UNCHANGED vars BY <1>1 DEF TakeEvent
  <2> QED BY <2>1 DEF Next, ManagerStep
<1>2. CASE Connect(s) \/ ManagePrompts(s) \/ ListPromptsFails(s)
          \/ stopNotificationWatcher(s) \/ Disconnect(s)
  <2>1. UNCHANGED vars
    BY <1>2 DEF Connect, ManagePrompts, ListPromptsFails, stopNotificationWatcher, Disconnect
  <2> QED BY <2>1
<1>3. CASE ConnectionFails(s) \/ ListToolsFails(s)
  <2>1. handleConnectionFailure(s) \/ manageKeepsTools(s) BY <1>3 DEF ConnectionFails, ListToolsFails
  <2> QED BY <2>1 DEF Next, ManagerFails
<1>4. CASE Ping(s)
  <2>1. manageKeepsTools(s) \/ UNCHANGED vars BY <1>4 DEF Ping
  <2> QED BY <2>1 DEF Next, ManagerFails
<1>5. CASE ListTools(s) \/ CommitTools(s) \/ RegistryStep(s) \/ LoopEnds(s)
  <2>1. ManagerStep(s) BY <1>5 DEF ListTools, CommitTools, RegistryStep, LoopEnds, ManagerStep
  <2> QED BY <2>1 DEF Next
<1> QED BY <1>1, <1>2, <1>3, <1>4, <1>5 DEF Works

\* Each step of a manager is one of ToolRegistry or leaves its variables alone.
LEMMA StepsImplement == [Manages]_allVars => [Next]_vars
<1> SUFFICES ASSUME [Manages]_allVars PROVE [Next]_vars OBVIOUS
<1>1. CASE UNCHANGED allVars BY <1>1 DEF allVars
<1>2. ASSUME NEW s \in Servers, UpstreamActs(s) PROVE [Next]_vars
  <2>1. CASE \E l \in Listings : ChangeTools(s, l)
    BY <2>1, ManagerAssumption DEF ChangeTools, Next
  <2>2. CASE \/ \E l \in PromptLists : ChangePrompts(s, l)
             \/ ForgetSession(s) \/ \E m \in Lists : NotifiedByRequest(s, m)
    <3>1. UNCHANGED vars BY <2>2 DEF ChangePrompts, ForgetSession, NotifiedByRequest
    <3> QED BY <3>1
  <2> QED BY <1>2, <2>1, <2>2 DEF UpstreamActs
<1>3. ASSUME NEW s \in Servers, LoopDone(s) PROVE [Next]_vars BY <1>3 DEF LoopDone
<1>4. ASSUME NEW s \in Servers, NEW n \in Sessions, Watches(s, n) PROVE [Next]_vars
  <2>1. UNCHANGED vars
    BY <1>4 DEF Watches, WatchGet, WatchReconnects, WatchCancelled, WatchDispatch, WatcherTo
  <2> QED BY <2>1
<1>5. CASE ReloadStops BY <1>5 DEF ReloadStops, Next, ReloadEnds
<1>6. CASE ReloadStarts BY <1>6 DEF ReloadStarts, Next, ReloadEnds
<1> QED BY <1>1, <1>2, <1>3, <1>4, <1>5, <1>6, WorksImplement DEF Manages

\* So the theorems about ToolRegistry apply.
LEMMA ManagerRefinesRegistry == ManagerSpec => Spec
<1>1. UInit => Init BY DEF UInit
<1> QED BY <1>1, StepsImplement, PTL DEF ManagerSpec, Spec

\* Nothing is served for a manager that is gone, stopped in whatever state its
\* session, its watcher and its requests are.
THEOREM ManagerLeavesNoOrphans == ManagerSpec => []NoOrphanTools
BY ManagerRefinesRegistry, NoOrphans, PTL

-----------------------------------------------------------------------------
(* The client of a manager *)

\* A step leaves what ClientInv(t) is about alone.
Untouched(t) ==
  /\ cpc'[t] = cpc[t] /\ event'[t] = event[t] /\ pending'[t] = pending[t]
  /\ session'[t] = session[t] /\ watched'[t] = watched[t] /\ watcher'[t] = watcher[t]
  /\ gwPrompts'[t] = gwPrompts[t] /\ ready'[t] = ready[t]
  /\ unheeded'[t] = unheeded[t] /\ missed'[t] = missed[t]
  /\ kind'[t] = kind[t] /\ failures'[t] = failures[t]
  /\ mpc'[t] = mpc[t] /\ cancelled'[t] = cancelled[t]

LEMMA UntouchedInv ==
  ASSUME NEW t \in Servers, ClientInv(t), Untouched(t) PROVE ClientInv(t)'
<1>1. LoopInv(t)' BY DEF ClientInv, LoopInv, Untouched
<1>2. EndInv(t)' BY DEF ClientInv, EndInv, Clean, Untouched
<1>3. WatchInv(t)' BY DEF ClientInv, WatchInv, Untouched
<1>4. NoticeInv(t)' BY DEF ClientInv, NoticeInv, Listing, Untouched
<1> QED BY <1>1, <1>2, <1>3, <1>4 DEF ClientInv

LEMMA LocalInv ==
  ASSUME UInv, ManagerTypeOK', NEW s \in Servers, \A t \in Servers \ {s} : Untouched(t),
         ClientInv(s)'
  PROVE  UInv'
BY UntouchedInv DEF UInv

LEMMA UInitInv == UInit => UInv
<1> SUFFICES ASSUME UInit PROVE UInv OBVIOUS
<1>1. ManagerTypeOK BY ManagerAssumption DEF UInit, ManagerTypeOK, Lists, PromptLists
<1>2. ASSUME NEW s \in Servers PROVE ClientInv(s)
  BY DEF UInit, Init, ClientInv, LoopInv, EndInv, Clean, WatchInv, Watching, NoticeInv
<1> QED BY <1>1, <1>2 DEF UInv

LEMMA CountIncident == ASSUME incidents \in 0 .. MaxIncidents, Incident
                       PROVE  incidents' \in 0 .. MaxIncidents
BY ManagerAssumption DEF Incident

LEMMA WatcherType ==
  ASSUME watcher \in [Servers -> [Sessions -> Watching \cup {"exited"}]],
         NEW s \in Servers, NEW n \in Sessions, NEW st \in Watching \cup {"exited"},
         watcher' = [watcher EXCEPT ![s][n] = st]
  PROVE  /\ watcher' \in [Servers -> [Sessions -> Watching \cup {"exited"}]]
         /\ \A t \in Servers \ {s} : watcher'[t] = watcher[t]
         /\ watcher'[s][n] = st
         /\ \A m \in Sessions \ {n} : watcher'[s][m] = watcher[s][m]
OBVIOUS

LEMMA TakeEventInv ==
  ASSUME UInv, TypeOK, NEW s \in Servers, NEW e \in Lists \cup {"tick"}, TakeEvent(s, e)
  PROVE  UInv'
<1> USE DEF TakeEvent, Goto, clientVars, promptVars, statusVars, noticeVars
<1>1. ManagerTypeOK /\ ClientInv(s) BY DEF UInv
<1>2. /\ UNCHANGED <<kind, cancelled>> /\ mpc[s] = "select"
      /\ \A t \in Servers \ {s} : mpc'[t] = mpc[t] /\ failures'[t] = failures[t]
      /\ \/ kind[s] = "disabled" /\ cpc' = [cpc EXCEPT ![s] = "disconnect"] /\ mpc'[s] = "delete"
         \/ /\ kind[s] # "disabled" /\ cpc' = [cpc EXCEPT ![s] = "connect"]
            /\ UNCHANGED <<mpc, failures>>
  BY DEF TypeOK, At, manageDisabled, removeAllTools, vars, reloadVars
<1>3. ManagerTypeOK' BY <1>1, <1>2 DEF ManagerTypeOK
<1>4. \A t \in Servers \ {s} : Untouched(t) BY <1>1, <1>2 DEF Untouched, ManagerTypeOK
<1>5. ClientInv(s)'
  <2>1. LoopInv(s)' BY <1>1, <1>2 DEF ManagerTypeOK, LoopInv, ClientInv
  <2>2. EndInv(s)' BY <1>1, <1>2 DEF ManagerTypeOK, EndInv, ClientInv, Clean
  <2>3. WatchInv(s)' BY <1>1, <1>2 DEF ManagerTypeOK, WatchInv, ClientInv
  <2>4. NoticeInv(s)' BY <1>1, <1>2 DEF ManagerTypeOK, NoticeInv, ClientInv, Listing, At, Lists
  <2> QED BY <2>1, <2>2, <2>3, <2>4 DEF ClientInv
<1> QED BY <1>3, <1>4, <1>5, LocalInv

LEMMA ConnectInv ==
  ASSUME UInv, TypeOK, NEW s \in Servers, Connect(s)
  PROVE  UInv'
<1> USE DEF Connect, Goto, promptVars, statusVars, noticeVars, vars, reloadVars
<1>1. ManagerTypeOK /\ ClientInv(s) BY DEF UInv
<1>2. /\ UNCHANGED <<kind, cancelled, mpc, failures>> /\ mpc[s] = "select"
      /\ cpc[s] = "connect" /\ cpc' = [cpc EXCEPT ![s] = "ping"]
  BY DEF At
<1>3. CASE session[s] # None /\ UNCHANGED clientVars
  <2> USE <1>3 DEF clientVars
  <2>1. ManagerTypeOK' BY <1>1, <1>2 DEF ManagerTypeOK
  <2>2. \A t \in Servers \ {s} : Untouched(t) BY <1>1, <1>2 DEF Untouched, ManagerTypeOK
  <2>3. LoopInv(s)' BY <1>1, <1>2 DEF ManagerTypeOK, LoopInv, ClientInv
  <2>4. EndInv(s)' BY <1>1, <1>2 DEF ManagerTypeOK, EndInv, ClientInv, Clean
  <2>5. WatchInv(s)' BY <1>1, <1>2 DEF ManagerTypeOK, WatchInv, ClientInv
  <2>6. NoticeInv(s)' BY <1>1, <1>2 DEF ManagerTypeOK, NoticeInv, ClientInv, Listing
  <2> QED BY <2>1, <2>2, <2>3, <2>4, <2>5, <2>6, LocalInv DEF ClientInv
<1>4. CASE session[s] = None /\ NewSession(s)
  <2>1. \A n \in Sessions : watcher[s][n] = "exited"
    <3>1. \A n \in Sessions : n # None BY ManagerAssumption
    <3>2. \A n \in Sessions : watcher[s][n] \notin Watching
      BY <1>1, <1>4, <3>1 DEF ClientInv, WatchInv
    <3>3. watcher[s] \in [Sessions -> Watching \cup {"exited"}] BY <1>1 DEF ManagerTypeOK
    <3> QED BY <3>2, <3>3
  <2>2. PICK n \in Sessions : /\ session' = [session EXCEPT ![s] = n]
                              /\ known' = [known EXCEPT ![s] = {n}]
                              /\ watched' = [watched EXCEPT ![s] = n]
                              /\ watcher' = [watcher EXCEPT ![s][n] = "get"]
                              /\ supportsPrompts' = [supportsPrompts EXCEPT
                                                       ![s] = upstreamPrompts[s] # "unsupported"]
    BY <1>4, <2>1, ManagerAssumption DEF NewSession
  <2>3. n # None BY ManagerAssumption
  <2>4. ManagerTypeOK'
    <3>1. watcher' \in [Servers -> [Sessions -> Watching \cup {"exited"}]]
      BY <1>1, <2>2, WatcherType DEF ManagerTypeOK, Watching
    <3>2. /\ watched' \in [Servers -> Sessions \cup {None}]
          /\ \A t \in Servers : watched'[t] \in {None, session'[t]}
      BY <1>1, <2>2 DEF ManagerTypeOK
    <3>3. session' \in [Servers -> Sessions \cup {None}] /\ known' \in [Servers -> SUBSET Sessions]
      BY <1>1, <2>2 DEF ManagerTypeOK
    <3>4. supportsPrompts' \in [Servers -> BOOLEAN] BY <1>1, <2>2 DEF ManagerTypeOK
    <3> QED BY <1>1, <1>2, <3>1, <3>2, <3>3, <3>4 DEF ManagerTypeOK
  <2>5. ASSUME NEW t \in Servers \ {s} PROVE Untouched(t)
    <3>1. watcher'[t] = watcher[t] BY <1>1, <2>2, WatcherType DEF ManagerTypeOK, Watching
    <3> QED BY <1>1, <1>2, <2>2, <3>1 DEF Untouched, ManagerTypeOK
  <2>6. LoopInv(s)' BY <1>1, <1>2, <2>2, <2>3 DEF ManagerTypeOK, LoopInv, ClientInv
  <2>7. EndInv(s)' BY <1>1, <1>2 DEF EndInv, ClientInv
  <2>8. WatchInv(s)' BY <1>1, <2>1, <2>2 DEF ManagerTypeOK, WatchInv, Watching
  <2>9. NoticeInv(s)' BY <1>1, <1>2 DEF ManagerTypeOK, NoticeInv, ClientInv, Listing
  <2> QED BY <2>4, <2>5, <2>6, <2>7, <2>8, <2>9, LocalInv DEF ClientInv
<1> QED BY <1>3, <1>4

LEMMA FailureCounted ==
  ASSUME incidents \in 0 .. MaxIncidents, NEW s \in Servers, RequestFails(s)
  PROVE  incidents' \in 0 .. MaxIncidents
BY CountIncident DEF RequestFails

LEMMA ConnectionFailsInv ==
  ASSUME UInv, TypeOK, NEW s \in Servers, ConnectionFails(s)
  PROVE  UInv'
<1> USE DEF ConnectionFails, Goto, At, ListMissed, clientVars, promptVars, statusVars
<1>1. ManagerTypeOK /\ ClientInv(s) BY DEF UInv
<1>2. /\ UNCHANGED <<kind, cancelled>> /\ mpc[s] = "select" /\ mpc'[s] # "done"
      /\ \A t \in Servers \ {s} : mpc'[t] = mpc[t] /\ failures'[t] = failures[t]
      /\ cancelled[s] # "stopping"
  BY <1>1 DEF TypeOK, handleConnectionFailure, removeAllTools, reloadVars, ClientInv, EndInv
<1>3. incidents' \in 0 .. MaxIncidents BY <1>1, FailureCounted DEF ManagerTypeOK
<1>4. ManagerTypeOK' BY <1>1, <1>2, <1>3 DEF ManagerTypeOK, Lists
<1>5. \A t \in Servers \ {s} : Untouched(t) BY <1>1, <1>2, <1>3 DEF Untouched, ManagerTypeOK
<1>6. LoopInv(s)' BY <1>1, <1>2, <1>3 DEF ManagerTypeOK, LoopInv, ClientInv
<1>7. EndInv(s)' BY <1>1, <1>2, <1>3 DEF ManagerTypeOK, EndInv, ClientInv, Clean
<1>8. WatchInv(s)' BY <1>1, <1>2, <1>3 DEF ManagerTypeOK, WatchInv, ClientInv
<1>9. NoticeInv(s)' BY <1>1, <1>2, <1>3 DEF ManagerTypeOK, NoticeInv, ClientInv, Listing
<1> QED BY <1>4, <1>5, <1>6, <1>7, <1>8, <1>9, LocalInv DEF ClientInv

LEMMA PingInv ==
  ASSUME UInv, TypeOK, NEW s \in Servers, Ping(s)
  PROVE  UInv'
<1> USE DEF Ping, ManageReturns, Goto, At, clientVars, promptVars, noticeVars, statusVars
<1>1. ManagerTypeOK /\ ClientInv(s) BY DEF UInv
<1>2. /\ UNCHANGED <<kind, cancelled, mpc>> /\ mpc[s] = "select"
      /\ \/ failures' = [failures EXCEPT ![s] = 0]
         \/ failures' = failures /\ cpc' = [cpc EXCEPT ![s] = "list"]
  BY DEF manageKeepsTools, vars, reloadVars
<1>3. /\ \A t \in Servers \ {s} : failures'[t] = failures[t]
      /\ cpc'[s] # "list" => failures'[s] = 0
  <2>1. DOMAIN failures = Servers BY DEF TypeOK
  <2>2. cpc \in [Servers -> {"start", "loop", "connect", "ping", "list", "tools", "prompts",
                             "disconnect", "close", "stop", "stopClose"}]
    BY <1>1 DEF ManagerTypeOK
  <2> QED BY <1>2, <2>1, <2>2
<1>4. ManagerTypeOK' BY <1>1, <1>2, <1>3 DEF ManagerTypeOK, Lists
<1>5. \A t \in Servers \ {s} : Untouched(t) BY <1>1, <1>2, <1>3 DEF Untouched, ManagerTypeOK
<1>6. LoopInv(s)' BY <1>1, <1>2, <1>3 DEF ManagerTypeOK, LoopInv, ClientInv
<1>7. EndInv(s)' BY <1>1, <1>2, <1>3 DEF ManagerTypeOK, EndInv, ClientInv, Clean
<1>8. WatchInv(s)' BY <1>1, <1>2, <1>3 DEF ManagerTypeOK, WatchInv, ClientInv
<1>9. NoticeInv(s)' BY <1>1, <1>2, <1>3 DEF ManagerTypeOK, NoticeInv, ClientInv, Listing
<1> QED BY <1>4, <1>5, <1>6, <1>7, <1>8, <1>9, LocalInv DEF ClientInv

LEMMA ListToolsInv ==
  ASSUME UInv, TypeOK, NEW s \in Servers, ListTools(s)
  PROVE  UInv'
<1> USE DEF ListTools, Goto, At, clientVars, promptVars, statusVars
<1>1. ManagerTypeOK /\ ClientInv(s) BY DEF UInv
<1>2. /\ UNCHANGED <<kind, cancelled>> /\ mpc[s] = "select" /\ mpc'[s] = "diff"
      /\ failures'[s] = 0 /\ cancelled[s] # "stopping"
      /\ \A t \in Servers \ {s} : mpc'[t] = mpc[t] /\ failures'[t] = failures[t]
  BY <1>1 DEF TypeOK, getTools, reloadVars, ClientInv, EndInv
<1>4. ManagerTypeOK' BY <1>1, <1>2 DEF ManagerTypeOK, Lists
<1>5. \A t \in Servers \ {s} : Untouched(t) BY <1>1, <1>2 DEF Untouched, ManagerTypeOK
<1>6. LoopInv(s)' BY <1>1, <1>2 DEF ManagerTypeOK, LoopInv, ClientInv
<1>7. EndInv(s)' BY <1>1, <1>2 DEF ManagerTypeOK, EndInv, ClientInv, Clean
<1>8. WatchInv(s)' BY <1>1, <1>2 DEF ManagerTypeOK, WatchInv, ClientInv
<1>9. NoticeInv(s)' BY <1>1, <1>2 DEF ManagerTypeOK, NoticeInv, ClientInv, Listing
<1> QED BY <1>4, <1>5, <1>6, <1>7, <1>8, <1>9, LocalInv DEF ClientInv

LEMMA ListToolsFailsInv ==
  ASSUME UInv, TypeOK, NEW s \in Servers, ListToolsFails(s)
  PROVE  UInv'
<1> USE DEF ListToolsFails, Goto, At, ListMissed, clientVars, promptVars
<1>1. ManagerTypeOK /\ ClientInv(s) BY DEF UInv
<1>2. /\ UNCHANGED <<kind, cancelled, mpc>> /\ mpc[s] = "select"
      /\ failures'[s] = 0
      /\ \A t \in Servers \ {s} : failures'[t] = failures[t]
  BY DEF TypeOK, manageKeepsTools, reloadVars
<1>3. incidents' \in 0 .. MaxIncidents BY <1>1, FailureCounted DEF ManagerTypeOK
<1>4. ManagerTypeOK' BY <1>1, <1>2, <1>3 DEF ManagerTypeOK, Lists
<1>5. \A t \in Servers \ {s} : Untouched(t) BY <1>1, <1>2, <1>3 DEF Untouched, ManagerTypeOK
<1>6. LoopInv(s)' BY <1>1, <1>2, <1>3 DEF ManagerTypeOK, LoopInv, ClientInv
<1>7. EndInv(s)' BY <1>1, <1>2, <1>3 DEF ManagerTypeOK, EndInv, ClientInv, Clean
<1>8. WatchInv(s)' BY <1>1, <1>2, <1>3 DEF ManagerTypeOK, WatchInv, ClientInv
<1>9. NoticeInv(s)' BY <1>1, <1>2, <1>3 DEF ManagerTypeOK, NoticeInv, ClientInv, Listing
<1> QED BY <1>4, <1>5, <1>6, <1>7, <1>8, <1>9, LocalInv DEF ClientInv

LEMMA CommitToolsInv ==
  ASSUME UInv, TypeOK, NEW s \in Servers, CommitTools(s)
  PROVE  UInv'
<1> USE DEF CommitTools, clientVars, promptVars, noticeVars
<1>1. ManagerTypeOK /\ ClientInv(s) BY DEF UInv
<1>2. /\ UNCHANGED <<kind, cancelled, failures>> /\ mpc[s] = "diff" /\ mpc'[s] # "done"
      /\ cancelled[s] # "stopping"
      /\ \A t \in Servers \ {s} : mpc'[t] = mpc[t]
  BY <1>1 DEF TypeOK, manageTools, removeAllTools, reloadVars, ClientInv, EndInv
<1>3. toolErr' \in [Servers -> BOOLEAN] BY <1>1 DEF ManagerTypeOK, Rejected
<1>4. ManagerTypeOK' BY <1>1, <1>2, <1>3 DEF ManagerTypeOK, Lists
<1>5. \A t \in Servers \ {s} : Untouched(t) BY <1>1, <1>2, <1>3 DEF Untouched, ManagerTypeOK
<1>6. LoopInv(s)' BY <1>1, <1>2, <1>3 DEF ManagerTypeOK, LoopInv, ClientInv
<1>7. EndInv(s)' BY <1>1, <1>2, <1>3 DEF ManagerTypeOK, EndInv, ClientInv, Clean
<1>8. WatchInv(s)' BY <1>1, <1>2, <1>3 DEF ManagerTypeOK, WatchInv, ClientInv
<1>9. NoticeInv(s)' BY <1>1, <1>2, <1>3 DEF ManagerTypeOK, NoticeInv, ClientInv, Listing
<1> QED BY <1>4, <1>5, <1>6, <1>7, <1>8, <1>9, LocalInv DEF ClientInv

LEMMA RegistryStepInv ==
  ASSUME UInv, TypeOK, NEW s \in Servers, RegistryStep(s)
  PROVE  UInv'
<1> USE DEF RegistryStep, ownVars, clientVars, promptVars, statusVars, noticeVars
<1>1. ManagerTypeOK /\ ClientInv(s) BY DEF UInv
<1>2. /\ UNCHANGED <<kind, cancelled, failures>>
      /\ \A t \in Servers \ {s} : mpc'[t] = mpc[t]
      /\ mpc'[s] # "diff"
      /\ mpc'[s] = "done" => cancelled[s] = "stopping"
      /\ mpc'[s] = "select" => cancelled[s] # "stopping"
  BY DEF TypeOK, DeleteTools, AddTools, buildRoutingTable, refreshRoutingTable, Return, reloadVars
<1>4. ManagerTypeOK' BY <1>1, <1>2 DEF ManagerTypeOK, Lists
<1>5. \A t \in Servers \ {s} : Untouched(t) BY <1>1, <1>2 DEF Untouched, ManagerTypeOK
<1>6. LoopInv(s)' BY <1>1, <1>2 DEF ManagerTypeOK, LoopInv, ClientInv
<1>7. EndInv(s)' BY <1>1, <1>2 DEF ManagerTypeOK, EndInv, ClientInv, Clean
<1>8. WatchInv(s)' BY <1>1, <1>2 DEF ManagerTypeOK, WatchInv, ClientInv
<1>9. NoticeInv(s)' BY <1>1, <1>2 DEF ManagerTypeOK, NoticeInv, ClientInv, Listing
<1> QED BY <1>4, <1>5, <1>6, <1>7, <1>8, <1>9, LocalInv DEF ClientInv

LEMMA ManagePromptsInv ==
  ASSUME UInv, TypeOK, NEW s \in Servers, ManagePrompts(s)
  PROVE  UInv'
<1> USE DEF ManagePrompts, AtPrompts, ManageReturns, Goto, At, clientVars, noticeVars, vars, reloadVars
<1>1. ManagerTypeOK /\ ClientInv(s) BY DEF UInv
<1>2. UNCHANGED <<kind, cancelled, mpc, failures>> /\ mpc[s] = "select"
  BY DEF ManagePrompts
<1>3. gwPrompts' \in [Servers -> BOOLEAN] BY <1>1 DEF ManagerTypeOK, ValidatePrompts
<1>4. ManagerTypeOK' BY <1>1, <1>2, <1>3 DEF ManagerTypeOK, Lists
<1>5. \A t \in Servers \ {s} : Untouched(t) BY <1>1, <1>2 DEF Untouched, ManagerTypeOK
<1>6. LoopInv(s)' BY <1>1, <1>2 DEF ManagerTypeOK, LoopInv, ClientInv
<1>7. EndInv(s)' BY <1>1, <1>2 DEF ManagerTypeOK, EndInv, ClientInv, Clean
<1>8. WatchInv(s)' BY <1>1, <1>2 DEF ManagerTypeOK, WatchInv, ClientInv
<1>9. NoticeInv(s)' BY <1>1, <1>2 DEF ManagerTypeOK, NoticeInv, ClientInv, Listing
<1> QED BY <1>4, <1>5, <1>6, <1>7, <1>8, <1>9, LocalInv DEF ClientInv

LEMMA ListPromptsFailsInv ==
  ASSUME UInv, TypeOK, NEW s \in Servers, ListPromptsFails(s)
  PROVE  UInv'
<1> USE DEF ListPromptsFails, AtPrompts, ManageReturns, Goto, At, promptVars, clientVars, noticeVars, vars, reloadVars
<1>1. ManagerTypeOK /\ ClientInv(s) BY DEF UInv
<1>2. UNCHANGED <<kind, cancelled, mpc, failures>> /\ mpc[s] = "select"
  BY DEF ListPromptsFails
<1>3. incidents' \in 0 .. MaxIncidents BY <1>1, FailureCounted DEF ManagerTypeOK
<1>4. ManagerTypeOK' BY <1>1, <1>2, <1>3 DEF ManagerTypeOK, Lists
<1>5. \A t \in Servers \ {s} : Untouched(t) BY <1>1, <1>2, <1>3 DEF Untouched, ManagerTypeOK
<1>6. LoopInv(s)' BY <1>1, <1>2, <1>3 DEF ManagerTypeOK, LoopInv, ClientInv
<1>7. EndInv(s)' BY <1>1, <1>2, <1>3 DEF ManagerTypeOK, EndInv, ClientInv, Clean
<1>8. WatchInv(s)' BY <1>1, <1>2, <1>3 DEF ManagerTypeOK, WatchInv, ClientInv
<1>9. NoticeInv(s)' BY <1>1, <1>2, <1>3 DEF ManagerTypeOK, NoticeInv, ClientInv, Listing
<1> QED BY <1>4, <1>5, <1>6, <1>7, <1>8, <1>9, LocalInv DEF ClientInv

LEMMA stopNotificationWatcherInv ==
  ASSUME UInv, TypeOK, NEW s \in Servers, stopNotificationWatcher(s)
  PROVE  UInv'
<1> USE DEF stopNotificationWatcher, Goto, At, statusVars, noticeVars, vars, reloadVars
<1>1. ManagerTypeOK /\ ClientInv(s) BY DEF UInv
<1>2. UNCHANGED <<kind, cancelled, mpc, failures>> /\ mpc[s] = "select"
  BY DEF stopNotificationWatcher
<1>4. ManagerTypeOK' BY <1>1, <1>2 DEF ManagerTypeOK, Lists
<1>5. \A t \in Servers \ {s} : Untouched(t) BY <1>1, <1>2 DEF Untouched, ManagerTypeOK
<1>6. LoopInv(s)' BY <1>1, <1>2 DEF ManagerTypeOK, LoopInv, ClientInv
<1>7. EndInv(s)' BY <1>1, <1>2 DEF ManagerTypeOK, EndInv, ClientInv, Clean
<1>8. WatchInv(s)' BY <1>1, <1>2 DEF ManagerTypeOK, WatchInv, ClientInv
<1>9. NoticeInv(s)' BY <1>1, <1>2 DEF ManagerTypeOK, NoticeInv, ClientInv, Listing
<1> QED BY <1>4, <1>5, <1>6, <1>7, <1>8, <1>9, LocalInv DEF ClientInv

LEMMA DisconnectInv ==
  ASSUME UInv, TypeOK, NEW s \in Servers, Disconnect(s)
  PROVE  UInv'
<1> USE DEF Disconnect, CloseSession, WatcherDone, ManageReturns, Goto, At, promptVars, noticeVars, vars, reloadVars
<1>1. ManagerTypeOK /\ ClientInv(s) BY DEF UInv
<1>2. UNCHANGED <<kind, cancelled, mpc, failures>> /\ mpc[s] = "select"
  BY DEF Disconnect
<1>3. watched[s] = None BY <1>1 DEF ClientInv, LoopInv
<1>4. ManagerTypeOK' BY <1>1, <1>2, <1>3 DEF ManagerTypeOK, Lists
<1>5. \A t \in Servers \ {s} : Untouched(t) BY <1>1, <1>2, <1>3 DEF Untouched, ManagerTypeOK
<1>6. LoopInv(s)' BY <1>1, <1>2, <1>3 DEF ManagerTypeOK, LoopInv, ClientInv
<1>7. EndInv(s)' BY <1>1, <1>2, <1>3 DEF ManagerTypeOK, EndInv, ClientInv, Clean
<1>8. WatchInv(s)' BY <1>1, <1>2, <1>3 DEF ManagerTypeOK, WatchInv, ClientInv
<1>9. NoticeInv(s)' BY <1>1, <1>2, <1>3 DEF ManagerTypeOK, NoticeInv, ClientInv, Listing
<1> QED BY <1>4, <1>5, <1>6, <1>7, <1>8, <1>9, LocalInv DEF ClientInv

LEMMA LoopDoneInv ==
  ASSUME UInv, TypeOK, NEW s \in Servers, LoopDone(s)
  PROVE  UInv'
<1> USE DEF LoopDone, Goto, At, promptVars, statusVars, clientVars, noticeVars, vars, reloadVars
<1>1. ManagerTypeOK /\ ClientInv(s) BY DEF UInv
<1>2. UNCHANGED <<kind, cancelled, mpc, failures>> /\ mpc[s] = "select"
  BY DEF LoopDone
<1>4. ManagerTypeOK' BY <1>1, <1>2 DEF ManagerTypeOK, Lists
<1>5. \A t \in Servers \ {s} : Untouched(t) BY <1>1, <1>2 DEF Untouched, ManagerTypeOK
<1>6. LoopInv(s)' BY <1>1, <1>2 DEF ManagerTypeOK, LoopInv, ClientInv
<1>7. EndInv(s)' BY <1>1, <1>2 DEF ManagerTypeOK, EndInv, ClientInv, Clean
<1>8. WatchInv(s)' BY <1>1, <1>2 DEF ManagerTypeOK, WatchInv, ClientInv
<1>9. NoticeInv(s)' BY <1>1, <1>2 DEF ManagerTypeOK, NoticeInv, ClientInv, Listing
<1> QED BY <1>4, <1>5, <1>6, <1>7, <1>8, <1>9, LocalInv DEF ClientInv

LEMMA LoopEndsInv ==
  ASSUME UInv, TypeOK, NEW s \in Servers, LoopEnds(s)
  PROVE  UInv'
<1> USE DEF LoopEnds, CloseSession, WatcherDone, Forget, At
<1>1. ManagerTypeOK /\ ClientInv(s) BY DEF UInv
<1>2. /\ UNCHANGED <<kind, failures>> /\ mpc[s] = "select" /\ mpc'[s] = "delete"
      /\ \A t \in Servers \ {s} : mpc'[t] = mpc[t] /\ cancelled'[t] = cancelled[t]
  BY DEF TypeOK, LoopCancelled, removeAllTools, reloadVars
<1>3. watched[s] = None BY <1>1 DEF ClientInv, LoopInv
<1>4. ManagerTypeOK' BY <1>1, <1>2, <1>3 DEF ManagerTypeOK, Lists
<1>5. \A t \in Servers \ {s} : Untouched(t) BY <1>1, <1>2, <1>3 DEF Untouched, ManagerTypeOK
<1>6. LoopInv(s)' BY <1>1, <1>2, <1>3 DEF ManagerTypeOK, LoopInv, ClientInv
<1>7. EndInv(s)' BY <1>1, <1>2, <1>3 DEF ManagerTypeOK, EndInv, ClientInv, Clean
<1>8. WatchInv(s)' BY <1>1, <1>2, <1>3 DEF ManagerTypeOK, WatchInv, ClientInv
<1>9. NoticeInv(s)' BY <1>1, <1>2, <1>3 DEF ManagerTypeOK, NoticeInv, ClientInv, Listing
<1> QED BY <1>4, <1>5, <1>6, <1>7, <1>8, <1>9, LocalInv DEF ClientInv

\* A notification, whoever brings it.
LEMMA NotifyInv ==
  ASSUME UInv, NEW s \in Servers, NEW m \in Lists, Incident, notify(s, m),
         UNCHANGED <<cpc, event, clientVars, promptVars, statusVars, kind, failures, mpc, cancelled>>
  PROVE  UInv'
<1> USE DEF notify, Noticed, clientVars, promptVars, statusVars
<1>1. ManagerTypeOK /\ ClientInv(s) BY DEF UInv
<1>2. incidents' \in 0 .. MaxIncidents BY <1>1, CountIncident DEF ManagerTypeOK
<1>3. ManagerTypeOK' BY <1>1, <1>2 DEF ManagerTypeOK, Lists
<1>4. \A t \in Servers \ {s} : Untouched(t) BY <1>1 DEF Untouched, ManagerTypeOK
<1>5. LoopInv(s)' /\ EndInv(s)' /\ WatchInv(s)'
  BY <1>1 DEF ClientInv, LoopInv, EndInv, Clean, WatchInv
<1>6. NoticeInv(s)' BY <1>1 DEF ManagerTypeOK, NoticeInv, ClientInv, Listing, Lists
<1> QED BY <1>3, <1>4, <1>5, <1>6, LocalInv DEF ClientInv

LEMMA UpstreamActsInv ==
  ASSUME UInv, TypeOK, NEW s \in Servers, UpstreamActs(s)
  PROVE  UInv'
<1>1. ManagerTypeOK /\ ClientInv(s) BY DEF UInv
<1>2. CASE \/ \E l \in Listings : ChangeTools(s, l)
           \/ \E l \in PromptLists : ChangePrompts(s, l)
           \/ ForgetSession(s)
  <2>1. \A t \in Servers : Untouched(t)
    BY <1>2 DEF ChangeTools, UpstreamChange, ChangePrompts, ForgetSession, Untouched, ownVars,
       clientVars, promptVars, statusVars, noticeVars, vars, reloadVars
  <2>2. ManagerTypeOK'
    <3>1. CASE \E l \in Listings : ChangeTools(s, l)
      BY <1>1, <3>1 DEF ChangeTools, ManagerTypeOK, ownVars, clientVars, promptVars, statusVars,
         noticeVars
    <3>2. CASE \E l \in PromptLists : ChangePrompts(s, l)
      BY <1>1, <3>2, CountIncident DEF ChangePrompts, ManagerTypeOK, clientVars, statusVars, noticeVars
    <3>3. CASE ForgetSession(s)
      BY <1>1, <3>3, CountIncident DEF ForgetSession, ManagerTypeOK, promptVars, statusVars, noticeVars
    <3> QED BY <1>2, <3>1, <3>2, <3>3
  <2> QED BY <2>1, <2>2, UntouchedInv DEF UInv
<1>3. ASSUME NEW m \in Lists, NotifiedByRequest(s, m) PROVE UInv'
  BY <1>3, NotifyInv DEF NotifiedByRequest, vars, reloadVars
<1> QED BY <1>2, <1>3 DEF UpstreamActs

LEMMA WatchesInv ==
  ASSUME UInv, TypeOK, NEW s \in Servers, NEW n \in Sessions, Watches(s, n)
  PROVE  UInv'
<1>1. ManagerTypeOK /\ ClientInv(s) BY DEF UInv
<1>2. ASSUME NEW st \in Watching \cup {"exited"}, WatcherTo(s, n, st), watcher[s][n] \in Watching
      PROVE  UInv'
  <2> USE <1>2 DEF WatcherTo, promptVars, statusVars, noticeVars, vars, reloadVars
  <2>1. /\ watcher' \in [Servers -> [Sessions -> Watching \cup {"exited"}]]
        /\ \A t \in Servers \ {s} : watcher'[t] = watcher[t]
        /\ \A m \in Sessions \ {n} : watcher'[s][m] = watcher[s][m]
    BY <1>1, WatcherType DEF ManagerTypeOK
  <2>2. ManagerTypeOK' BY <1>1, <2>1 DEF ManagerTypeOK
  <2>3. \A t \in Servers \ {s} : Untouched(t) BY <2>1 DEF Untouched
  <2>4. LoopInv(s)' /\ EndInv(s)' /\ NoticeInv(s)'
    BY <1>1 DEF ClientInv, LoopInv, EndInv, Clean, NoticeInv, Listing
  <2>5. WatchInv(s)' BY <1>1, <2>1 DEF ClientInv, WatchInv
  <2> QED BY <2>2, <2>3, <2>4, <2>5, LocalInv DEF ClientInv
<1>3. CASE WatchGet(s, n) BY <1>2, <1>3 DEF WatchGet, Watching
<1>4. CASE WatchReconnects(s, n) BY <1>2, <1>4 DEF WatchReconnects, Watching
<1>5. CASE WatchCancelled(s, n) BY <1>2, <1>5 DEF WatchCancelled
<1>6. ASSUME NEW m \in Lists, WatchDispatch(s, n, m) PROVE UInv'
  BY <1>6, NotifyInv DEF WatchDispatch, vars, reloadVars
<1> QED BY <1>3, <1>4, <1>5, <1>6 DEF Watches

LEMMA ReloadStopsInv == ASSUME UInv, TypeOK, ReloadStops PROVE UInv'
<1> USE DEF ReloadStops, ownVars, clientVars, promptVars, statusVars, noticeVars
<1>1. /\ UNCHANGED <<kind, failures, mpc>>
      /\ \A s \in Servers : cancelled'[s] = "stopping" => cancelled[s] = "stopping"
  BY DEF TypeOK, deregisterStaleManagers, StopCancel, reloadVars
<1>2. ManagerTypeOK' BY DEF UInv, ManagerTypeOK
<1>3. ASSUME NEW s \in Servers PROVE ClientInv(s)'
  <2>1. ClientInv(s) BY DEF UInv
  <2>2. LoopInv(s)' /\ WatchInv(s)' /\ NoticeInv(s)'
    BY <1>1, <2>1 DEF ClientInv, LoopInv, WatchInv, NoticeInv, Listing
  <2>3. EndInv(s)' BY <1>1, <2>1 DEF ClientInv, EndInv, Clean
  <2> QED BY <2>2, <2>3 DEF ClientInv
<1> QED BY <1>2, <1>3 DEF UInv

\* A manager that is started begins with "start"; the others are as they were.
LEMMA ReloadStartsInv == ASSUME UInv, TypeOK, ReloadStarts PROVE UInv'
<1> USE DEF ownVars, clientVars, promptVars, statusVars, noticeVars
<1>1. PICK new \in SUBSET Servers, k \in [Servers -> Kinds] :
         /\ startManagers(new, k)
         /\ cpc' = [s \in Servers |-> IF s \in new THEN "start" ELSE cpc[s]]
         /\ UNCHANGED <<event, pending, clientVars, promptVars, statusVars, noticeVars, incidents>>
  BY DEF ReloadStarts
<1>2. ManagerTypeOK' BY <1>1 DEF UInv, ManagerTypeOK
<1>3. ASSUME NEW s \in Servers PROVE ClientInv(s)'
  <2>1. ClientInv(s) BY DEF UInv
  <2>2. CASE s \notin new
    <3>1. Untouched(s) BY <1>1, <2>2 DEF startManagers, Untouched
    <3> QED BY <2>1, <3>1, UntouchedInv
  <2>3. CASE s \in new
    <3>1. cpc'[s] = "start" /\ mpc'[s] = "select" /\ cancelled'[s] = "no"
      BY <1>1, <2>3 DEF startManagers
    <3>2. LoopInv(s)' /\ NoticeInv(s)' BY <3>1 DEF LoopInv, NoticeInv
    <3>3. EndInv(s)' BY <3>1 DEF EndInv
    <3>4. WatchInv(s)' BY <1>1, <2>1 DEF ClientInv, WatchInv
    <3> QED BY <3>2, <3>3, <3>4 DEF ClientInv
  <2> QED BY <2>2, <2>3
<1> QED BY <1>2, <1>3 DEF UInv

LEMMA WorksInv == ASSUME UInv, TypeOK, NEW s \in Servers, Works(s) PROVE UInv'
BY TakeEventInv, ConnectInv, ConnectionFailsInv, PingInv, ListToolsInv, ListToolsFailsInv,
   CommitToolsInv, RegistryStepInv, ManagePromptsInv, ListPromptsFailsInv,
   stopNotificationWatcherInv, DisconnectInv, LoopEndsInv DEF Works

LEMMA UNext == ASSUME UInv, TypeOK, [Manages]_allVars PROVE UInv'
<1>1. CASE UNCHANGED allVars
  <2> USE <1>1 DEF allVars, ownVars, clientVars, promptVars, statusVars, noticeVars, vars, reloadVars
  <2>1. ManagerTypeOK' BY DEF UInv, ManagerTypeOK
  <2>2. \A t \in Servers : Untouched(t) BY DEF Untouched
  <2> QED BY <2>1, <2>2, UntouchedInv DEF UInv
<1> QED BY <1>1, WorksInv, UpstreamActsInv, LoopDoneInv, WatchesInv, ReloadStopsInv,
           ReloadStartsInv DEF Manages

THEOREM ManagerInvariant == ManagerSpec => []UInv
<1>1. ManagerSpec => []TypeOK
  BY ManagerRefinesRegistry, RegistryTypeCorrect, PTL
<1>2. UInit => UInv BY UInitInv
<1>3. UInv /\ TypeOK /\ [Manages]_allVars => UInv' BY UNext
<1> QED BY <1>1, <1>2, <1>3, PTL DEF ManagerSpec

\* At most one watcher runs, for the session there is; a server reported Ready has a
\* session that answers; a manager that was stopped has no session and serves no
\* prompt, for any number of servers and sessions.
THEOREM ManagerClientConsistent == ManagerSpec => []ClientConsistent
<1>1. UInv => ClientConsistent
  BY DEF UInv, ClientInv, LoopInv, EndInv, Clean, WatchInv, ClientConsistent, At
<1> QED BY <1>1, ManagerInvariant, PTL

\* No notification about tools is lost between watcher and loop, whatever is dropped
\* at the full channel (registerCallbacks) and however long manage takes.
THEOREM ManagerHeedsNotices == ManagerSpec => []NoticeHeeded
<1>1. UInv => NoticeHeeded
  BY DEF UInv, ClientInv, NoticeInv, Listing, NoticeHeeded, At
<1> QED BY <1>1, ManagerInvariant, PTL

=============================================================================
