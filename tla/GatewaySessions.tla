--------------------------- MODULE GatewaySessions ---------------------------
(***************************************************************************)
(* The sessions of clients on one broker process.  A gateway session is a  *)
(* JWT, valid until it expires on every process; a process keeps a server  *)
(* session for it, made by the SDK handler on initialize or by the         *)
(* resurrection handler when a valid JWT turns up that the process does    *)
(* not know (session_resurrection.go), and closed when idle, on DELETE or  *)
(* when the JWT is found invalid (http_compat.go).  Attached to a session  *)
(* are the scope of select_tools (discovery_scope.go), the pooled upstream *)
(* session of user-specific tools (user_specific_tools.go), the backend    *)
(* session ids in the session cache, and the tools/list_changed            *)
(* notifications it is owed (gateway_server.go).                           *)
(*                                                                         *)
(* A server session is named after the request that created it, a pooled   *)
(* upstream session after the request and the attempt that connected it.   *)
(* There is one user-specific server.                                      *)
(***************************************************************************)
EXTENDS Naturals, Sequences, FiniteSets, SequencesExt

CONSTANTS Sids,        \* gateway session ids
          Requests,    \* HTTP requests
          None,
          Worlds,      \* the situations of a run, see WorldType
          MaxScopes,   \* scopeStore.maxSize
          MaxFailures  \* bound: failing calls of the network and of the store

Ops == {"initialize", "initialized", "list", "select", "reset", "get", "delete"}

\* op and sid describe the requests, known the sessions that other processes or
\* earlier lives of this one have issued, changes bounds the changes of the
\* gateway's tools, events says what else may happen.
WorldType ==
    [op : [Requests -> Ops \cup {"off"}], sid : [Requests -> Sids],
     known : SUBSET Sids, changes : Nat,
     events : SUBSET {"expire", "restart", "failure", "idle", "ttl", "window",
                      "leave"}]

ASSUME SessionsAssumption ==
    /\ Worlds \subseteq WorldType
    /\ None \notin Requests
    /\ MaxScopes \in Nat \ {0} /\ MaxFailures \in Nat

VARIABLES
    world,    \* the situation, fixed
    jwt,      \* "unissued", "valid" or "expired"
    q,        \* the requests
    sess,     \* the server session each request created
    table,    \* the SDK handler's sessions by id
    live,     \* sessionResurrectionHandler.live
    scopes,   \* scopeStore.scopes, the earliest expiry first
    pool,     \* userSessionPool
    users,    \* the upstream sessions: their gateway session, headers and state
    cached,   \* session ids of the user-specific server in the session cache
    notify,   \* gatewayServer's claims and the SDK's dispatch of list_changed
    unseen,   \* server sessions not told since their tool list changed
    adding,   \* an AddTools or DeleteTools is between its two steps
    changes,  \* changes of the gateway's tools so far
    failures  \* failed calls so far

sessionVars == <<sess, table, live>>
fetchVars == <<pool, users, cached>>
notifyVars == <<notify, unseen, adding, changes>>
vars == <<world, jwt, q, sessionVars, scopes, fetchVars, notifyVars, failures>>

Op(r) == world.op[r]
Sid(r) == world.sid[r]
UserIds == Requests \X {1, 2}

NoSession == [own |-> "none", st |-> "none", refs |-> 0, timer |-> "nil",
              fired |-> FALSE, watch |-> "none"]
NewRequest == [pc |-> "idle", method |-> "POST", obj |-> None, us |-> None,
               try |-> 1, before |-> {}, ans |-> "none", met |-> FALSE]

HandlerPCs == {"fetch", "connect", "store", "list", "remember", "select",
               "mark", "trigger"}
PostPCs == HandlerPCs \cup {"dispatch", "end"}
PCs == PostPCs \cup {"idle", "load", "sdk", "resurrect", "serve", "closing",
                     "stream", "done"}

Init ==
    /\ world \in Worlds
    /\ jwt = [s \in Sids |-> IF s \in world.known THEN "valid" ELSE "unissued"]
    /\ q = [r \in Requests |-> NewRequest]
    /\ sess = [r \in Requests |-> NoSession]
    /\ table = [s \in Sids |-> None]
    /\ live = [s \in Sids |-> None]
    /\ scopes = <<>>
    /\ pool = [s \in Sids |-> None]
    /\ users = [u \in UserIds |-> [open |-> FALSE, hdr |-> None]]
    /\ cached = [s \in Sids |-> None]
    /\ notify = [targets |-> {}, broadcast |-> FALSE, pending |-> FALSE,
                 sending |-> {}]
    /\ unseen = {} /\ adding = FALSE /\ changes = 0 /\ failures = 0

Event(e) == e \in world.events
Fails == Event("failure") /\ failures < MaxFailures /\ failures' = failures + 1
Works == UNCHANGED failures

Open(i) == sess[i].st = "open"
At(r, pc) == q[r].pc = pc
Goto(r, pc) == q' = [q EXCEPT ![r].pc = pc]
Answer(r, a) == q' = [q EXCEPT ![r] = [NewRequest EXCEPT !.pc = "done", !.ans = a, !.met = q[r].met]]

-----------------------------------------------------------------------------
(* The compatibility layer: what is checked before a request goes inwards. *)

\* A server session of s is on its way out: its Close has not returned, or the
\* table of resurrected sessions still has it.
Closing(s) == \E i \in Requests : Sid(i) = s /\ (sess[i].st = "closing" \/ sess[i].watch = "unlink")

\* dropSession: the request goes on as a DELETE whose answer is discarded.
DropThenAnswer(r, a) ==
    q' = [q EXCEPT ![r].pc = "load", ![r].method = "DELETE", ![r].ans = a]

\* serveInitialize, the SDK's part included: a new session id and session.
ServeInitialize(r) ==
    /\ At(r, "idle") /\ Op(r) = "initialize" /\ jwt[Sid(r)] = "unissued"
    /\ jwt' = [jwt EXCEPT ![Sid(r)] = "valid"]
    /\ sess' = [sess EXCEPT ![r] = [NoSession EXCEPT !.own = "sdk", !.st = "open",
                                                     !.timer = "armed"]]
    /\ table' = [table EXCEPT ![Sid(r)] = r]
    /\ Answer(r, "ok")
    /\ UNCHANGED <<world, live, scopes, fetchVars, notifyVars, failures>>

ServePOST(r) ==
    /\ At(r, "idle") /\ Op(r) \in {"initialized", "list", "select", "reset"}
    /\ jwt[Sid(r)] # "unissued"
    /\ IF jwt[Sid(r)] = "valid" THEN q' = [q EXCEPT ![r].pc = "load", ![r].met = Closing(Sid(r))]
       ELSE DropThenAnswer(r, "notFound")
    /\ UNCHANGED <<world, jwt, sessionVars, scopes, fetchVars, notifyVars, failures>>

\* A GET with an invalid session gets a stream that carries nothing.
ServeGET(r) ==
    /\ At(r, "idle") /\ Op(r) = "get" /\ jwt[Sid(r)] # "unissued"
    /\ IF jwt[Sid(r)] = "valid"
       THEN q' = [q EXCEPT ![r].pc = "load", ![r].method = "GET", ![r].met = Closing(Sid(r))]
       ELSE Answer(r, "ok")
    /\ UNCHANGED <<world, jwt, sessionVars, scopes, fetchVars, notifyVars, failures>>

ServeDELETE(r) ==
    /\ At(r, "idle") /\ Op(r) = "delete" /\ jwt[Sid(r)] # "unissued"
    /\ \/ /\ Works
          /\ cached' = [cached EXCEPT ![Sid(r)] = None]
          /\ DropThenAnswer(r, "ok")
       \/ Fails /\ Answer(r, "failed") /\ UNCHANGED cached
    /\ UNCHANGED <<world, jwt, sessionVars, scopes, pool, users, notifyVars>>

-----------------------------------------------------------------------------
(* Resurrection, idle timers and the end of sessions. *)

ServeLive(r) ==
    /\ At(r, "load")
    /\ IF live[Sid(r)] # None
       THEN q' = [q EXCEPT ![r].pc = "serve", ![r].obj = live[Sid(r)]]
       ELSE Goto(r, "sdk")
    /\ UNCHANGED <<world, jwt, sessionVars, scopes, fetchVars, notifyVars, failures>>

\* The SDK handler, and what becomes of its 404.
ServeNext(r) ==
    /\ At(r, "sdk")
    /\ IF table[Sid(r)] # None
       THEN q' = [q EXCEPT ![r].pc = "serve", ![r].obj = table[Sid(r)]]
       ELSE IF q[r].method = "DELETE" THEN Answer(r, q[r].ans)
       ELSE IF jwt[Sid(r)] = "valid" THEN Goto(r, "resurrect")
       ELSE Answer(r, "notFound")
    /\ UNCHANGED <<world, jwt, sessionVars, scopes, fetchVars, notifyVars, failures>>

Connected(r) ==
    /\ sess' = [sess EXCEPT ![r] = [NoSession EXCEPT !.own = "resurrected",
                                    !.st = "open", !.timer = "armed", !.watch = "wait"]]
    /\ live' = [live EXCEPT ![Sid(r)] = r]
    /\ q' = [q EXCEPT ![r].pc = "serve", ![r].obj = r]

\* Mutant: the table is not looked at again under mu.
ResurrectUnchecked(r) ==
    /\ At(r, "resurrect")
    /\ \/ Works /\ Connected(r)
       \/ Fails /\ Answer(r, "failed") /\ UNCHANGED <<sess, live>>
    /\ UNCHANGED <<world, jwt, table, scopes, fetchVars, notifyVars>>

\* resurrect holds mu throughout.
Resurrect(r) ==
    /\ At(r, "resurrect")
    /\ \/ /\ live[Sid(r)] # None
          /\ q' = [q EXCEPT ![r].pc = "serve", ![r].obj = live[Sid(r)]]
          /\ Works /\ UNCHANGED <<sess, live>>
       \/ live[Sid(r)] = None /\ Works /\ Connected(r)
       \/ live[Sid(r)] = None /\ Fails /\ Answer(r, "failed") /\ UNCHANGED <<sess, live>>
    /\ UNCHANGED <<world, jwt, table, scopes, fetchVars, notifyVars>>

UnderWay(r) == q[r].pc \notin {"idle", "done"}

\* Requests of the session as its closing begins.
Meeting(i) == [p \in Requests |->
    [q[p] EXCEPT !.met = @ \/ (Open(i) /\ UnderWay(p) /\ Sid(p) = Sid(i))]]

\* ServerSession.Close: new calls are refused, those under way finish.  The SDK
\* takes a session of its own out of its table here.
Close(i) ==
    /\ IF Open(i)
       THEN /\ sess' = [sess EXCEPT ![i].st = "closing",
                        ![i].timer = IF sess[i].own = "sdk" THEN "nil" ELSE @,
                        ![i].fired = FALSE]
            /\ table' = [table EXCEPT ![Sid(i)] = IF @ = i THEN None ELSE @]
       ELSE sess' = [sess EXCEPT ![i].fired = FALSE] /\ UNCHANGED table
    /\ unseen' = unseen \ {i}
    /\ notify' = [notify EXCEPT !.sending = @ \ {i}]

startRequest(e) ==
    IF e.timer = "nil" THEN e ELSE [e EXCEPT !.refs = @ + 1, !.timer = "off"]

endRequest(e) ==
    IF e.timer = "nil" THEN e
    ELSE [e EXCEPT !.refs = @ - 1, !.timer = IF e.refs = 1 THEN "armed" ELSE @]

Serve(r) ==
    LET i == q[r].obj IN
    /\ At(r, "serve")
    /\ \/ /\ q[r].method = "DELETE"
          /\ Close(i) /\ q' = [Meeting(i) EXCEPT ![r].pc = "closing"]
       \/ /\ q[r].method = "POST"
          /\ sess' = [sess EXCEPT ![i] = startRequest(@)]
          /\ Goto(r, "dispatch") /\ UNCHANGED <<table, notify, unseen>>
       \/ /\ q[r].method = "GET"
          /\ IF Open(i) THEN Goto(r, "stream") ELSE Answer(r, "closing")
          /\ UNCHANGED <<sess, table, notify, unseen>>
    /\ UNCHANGED <<world, jwt, live, scopes, fetchVars, adding, changes, failures>>

\* The transport hands the request to the session's handler, or refuses it.
Dispatch(r) ==
    LET i == q[r].obj IN
    /\ At(r, "dispatch")
    /\ IF ~Open(i)
       THEN q' = [q EXCEPT ![r].pc = "end", ![r].ans = "closing"] /\ UNCHANGED sess
       ELSE /\ Goto(r, CASE Op(r) = "list" -> "fetch"
                         [] Op(r) \in {"select", "reset"} -> "select"
                         [] OTHER -> "end")
            /\ sess' = [sess EXCEPT ![i].watch =
                          IF Op(r) = "initialized" /\ @ = "none" THEN "wait" ELSE @]
    /\ UNCHANGED <<world, jwt, table, live, scopes, fetchVars, notifyVars, failures>>

EndRequest(r) ==
    /\ At(r, "end")
    /\ sess' = [sess EXCEPT ![q[r].obj] = endRequest(@)]
    /\ Answer(r, IF q[r].ans = "none" THEN "ok" ELSE q[r].ans)
    /\ UNCHANGED <<world, jwt, table, live, scopes, fetchVars, notifyVars, failures>>

\* Mutant: a DELETE waits for the count of requests.
CloseReturnsUnreferenced(r) ==
    /\ At(r, "closing") /\ sess[q[r].obj].st = "ended" /\ sess[q[r].obj].refs = 0
    /\ Answer(r, q[r].ans)
    /\ UNCHANGED <<world, jwt, sessionVars, scopes, fetchVars, notifyVars, failures>>

\* Close returns to the DELETE once the session has ended.
CloseReturns(r) ==
    /\ At(r, "closing") /\ sess[q[r].obj].st = "ended"
    /\ Answer(r, q[r].ans)
    /\ UNCHANGED <<world, jwt, sessionVars, scopes, fetchVars, notifyVars, failures>>

StreamEnds(r) ==
    /\ At(r, "stream") /\ (Event("leave") \/ ~Open(q[r].obj))
    /\ Answer(r, "ok")
    /\ UNCHANGED <<world, jwt, sessionVars, scopes, fetchVars, notifyVars, failures>>

TimerFires(i) ==
    /\ Event("idle") /\ sess[i].timer = "armed"
    /\ sess' = [sess EXCEPT ![i].timer = "off", ![i].fired = TRUE]
    /\ UNCHANGED <<world, jwt, q, table, live, scopes, fetchVars, notifyVars, failures>>

TimerCloses(i) ==
    /\ sess[i].fired
    /\ Close(i) /\ q' = Meeting(i)
    /\ UNCHANGED <<world, jwt, live, scopes, fetchVars, adding, changes, failures>>

\* ServerSession.Wait returns when the last handler of a closing session is done.
WaitReturns(i) ==
    /\ sess[i].st = "closing"
    /\ \A r \in Requests : q[r].pc \in HandlerPCs => q[r].obj # i
    /\ sess' = [sess EXCEPT ![i].st = "ended",
                ![i].watch = CASE @ = "none" -> "none"
                               [] sess[i].own = "sdk" -> "scope"
                               [] OTHER -> "unlink"]
    /\ UNCHANGED <<world, jwt, q, table, live, scopes, fetchVars, notifyVars, failures>>

\* Mutant: the session stays in the table.
UnlinkNever(i) ==
    /\ sess[i].watch = "unlink"
    /\ sess' = [sess EXCEPT ![i].watch = "scope", ![i].timer = "nil", ![i].fired = FALSE]
    /\ UNCHANGED <<world, jwt, q, table, live, scopes, fetchVars, notifyVars, failures>>

\* stopTimer and live.CompareAndDelete.
Unlink(i) ==
    /\ sess[i].watch = "unlink"
    /\ sess' = [sess EXCEPT ![i].watch = "scope", ![i].timer = "nil", ![i].fired = FALSE]
    /\ live' = [live EXCEPT ![Sid(i)] = IF @ = i THEN None ELSE @]
    /\ UNCHANGED <<world, jwt, q, table, scopes, fetchVars, notifyVars, failures>>

Without(s) == SelectSeq(scopes, LAMBDA e : e.sid # s)

ClosePoolEntry(s) ==
    /\ pool' = [pool EXCEPT ![s] = None]
    /\ users' = IF pool[s] = None THEN users ELSE [users EXCEPT ![pool[s]].open = FALSE]

\* Mutant: the pooled session is not evicted.
EndWithoutEviction(i) ==
    /\ \/ /\ sess[i].watch = "scope"
          /\ scopes' = Without(Sid(i))
          /\ sess' = [sess EXCEPT ![i].watch = "pool"]
          /\ UNCHANGED <<fetchVars, failures>>
       \/ /\ sess[i].watch = "pool"
          /\ sess' = [sess EXCEPT ![i].watch = "cache"]
          /\ UNCHANGED <<scopes, fetchVars, failures>>
       \/ /\ sess[i].watch = "cache"
          /\ Works /\ cached' = [cached EXCEPT ![Sid(i)] = None]
          /\ sess' = [sess EXCEPT ![i].watch = "done"]
          /\ UNCHANGED <<scopes, pool, users>>
    /\ UNCHANGED <<world, jwt, q, table, live, notifyVars>>

\* onGatewaySessionEnd: the scope, the pooled session, the session cache.
OnGatewaySessionEnd(i) ==
    /\ \/ /\ sess[i].watch = "scope"
          /\ scopes' = Without(Sid(i))
          /\ sess' = [sess EXCEPT ![i].watch = "pool"]
          /\ UNCHANGED <<fetchVars, failures>>
       \/ /\ sess[i].watch = "pool"
          /\ ClosePoolEntry(Sid(i))
          /\ sess' = [sess EXCEPT ![i].watch = "cache"]
          /\ UNCHANGED <<scopes, cached, failures>>
       \/ /\ sess[i].watch = "cache"
          /\ \/ Works /\ cached' = [cached EXCEPT ![Sid(i)] = None]
             \/ Fails /\ UNCHANGED cached
          /\ sess' = [sess EXCEPT ![i].watch = "done"]
          /\ UNCHANGED <<scopes, pool, users>>
    /\ UNCHANGED <<world, jwt, q, table, live, notifyVars>>

-----------------------------------------------------------------------------
(* tools/list: the tools of the user-specific server, over a pooled session. *)

Failed(r) == q[r].try = 2

\* Mutant: the headers stay as they are.
FetchKeepsHeaders(r) ==
    LET u == pool[Sid(r)] IN
    /\ At(r, "fetch")
    /\ q' = [q EXCEPT ![r].pc = IF u # None THEN "list" ELSE "connect", ![r].us = u,
                      ![r].before = IF Failed(r) THEN @ ELSE {p \in Requests : At(p, "done")}]
    /\ UNCHANGED <<world, jwt, sessionVars, scopes, fetchVars, notifyVars, failures>>

\* getOrCreateUserSession up to Connect: a pooled session gets our headers.
Fetch(r) ==
    LET u == pool[Sid(r)] IN
    /\ At(r, "fetch")
    /\ q' = [q EXCEPT ![r].pc = IF u # None THEN "list" ELSE "connect", ![r].us = u,
                      ![r].before = IF Failed(r) THEN @ ELSE {p \in Requests : At(p, "done")}]
    /\ users' = IF u = None THEN users ELSE [users EXCEPT ![u].hdr = r]
    /\ UNCHANGED <<world, jwt, sessionVars, scopes, pool, cached, notifyVars, failures>>

\* Without a session the list goes on without these tools.
Connect(r) ==
    /\ At(r, "connect")
    /\ \/ /\ Works
          /\ users' = [users EXCEPT ![<<r, q[r].try>>] = [open |-> TRUE, hdr |-> r]]
          /\ q' = [q EXCEPT ![r].pc = "store", ![r].us = <<r, q[r].try>>]
       \/ Fails /\ Goto(r, "end") /\ UNCHANGED users
    /\ UNCHANGED <<world, jwt, sessionVars, scopes, pool, cached, notifyVars>>

\* Mutant: the loser of two connects stays open.
StoreLoserOpen(r) ==
    LET u == pool[Sid(r)] IN
    /\ At(r, "store")
    /\ IF u = None
       THEN /\ pool' = [pool EXCEPT ![Sid(r)] = q[r].us]
            /\ Goto(r, "list") /\ UNCHANGED users
       ELSE /\ users' = [users EXCEPT ![u].hdr = r]
            /\ q' = [q EXCEPT ![r].pc = "list", ![r].us = u] /\ UNCHANGED pool
    /\ UNCHANGED <<world, jwt, sessionVars, scopes, cached, notifyVars, failures>>

\* LoadOrStore; whoever comes second closes its own session and uses the other.
Store(r) ==
    LET u == pool[Sid(r)] IN
    /\ At(r, "store")
    /\ IF u = None
       THEN /\ pool' = [pool EXCEPT ![Sid(r)] = q[r].us]
            /\ Goto(r, "list") /\ UNCHANGED users
       ELSE /\ users' = [users EXCEPT ![u].hdr = r, ![q[r].us].open = FALSE]
            /\ q' = [q EXCEPT ![r].pc = "list", ![r].us = u] /\ UNCHANGED pool
    /\ UNCHANGED <<world, jwt, sessionVars, scopes, cached, notifyVars, failures>>

\* ListTools fails on a closed session and when the upstream does; the pooled
\* session, ours or a newer one, is then evicted and the fetch tried once more.
\* A list with invalid tools may be rejected (invalidToolPolicy).
ListTools(r) ==
    /\ At(r, "list")
    /\ \/ /\ users[q[r].us].open /\ Works
          /\ \E pc \in {"remember", "end"} : Goto(r, pc)
          /\ UNCHANGED <<pool, users>>
       \/ /\ IF users[q[r].us].open THEN Fails ELSE Works
          /\ ClosePoolEntry(Sid(r))
          /\ IF Failed(r) THEN Goto(r, "end")
             ELSE q' = [q EXCEPT ![r].pc = "fetch", ![r].try = 2]
    /\ UNCHANGED <<world, jwt, sessionVars, scopes, cached, notifyVars>>

\* The id is cached for tools/call as long as the JWT lives.
Remember(r) ==
    /\ At(r, "remember")
    /\ \/ /\ Works
          /\ cached' = IF jwt[Sid(r)] = "valid" THEN [cached EXCEPT ![Sid(r)] = q[r].us]
                       ELSE cached
       \/ Fails /\ UNCHANGED cached
    /\ Goto(r, "end")
    /\ UNCHANGED <<world, jwt, sessionVars, scopes, pool, users, notifyVars>>

-----------------------------------------------------------------------------
(* Scopes and notifications. *)

Entry(s) == [sid |-> s, expired |-> FALSE]
HasScope(s) == \E k \in DOMAIN scopes : scopes[k].sid = s
Full == Len(scopes) >= MaxScopes

\* At the limit the oldest entry goes, even if the session has one already.
SetScope(s) ==
    Append(SelectSeq(IF Full THEN Tail(scopes) ELSE scopes, LAMBDA e : e.sid # s), Entry(s))

ResetScope(s) ==
    Append(SelectSeq(IF Full /\ ~HasScope(s) THEN Tail(scopes) ELSE scopes,
                     LAMBDA e : e.sid # s), Entry(s))

\* handleSelectTools: a selection of tools that are not visible is refused.
HandleSelectTools(r) ==
    /\ At(r, "select")
    /\ \/ /\ scopes' = IF Op(r) = "select" THEN SetScope(Sid(r)) ELSE ResetScope(Sid(r))
          /\ unseen' = IF Open(q[r].obj) THEN unseen \cup {q[r].obj} ELSE unseen
          /\ Goto(r, "mark")
       \/ Op(r) = "select" /\ Goto(r, "end") /\ UNCHANGED <<scopes, unseen>>
    /\ UNCHANGED <<world, jwt, sessionVars, fetchVars, notify, adding, changes, failures>>

MarkNotifyTarget(r) ==
    /\ At(r, "mark")
    /\ notify' = [notify EXCEPT !.targets = @ \cup {Sid(r)}]
    /\ Goto(r, "trigger")
    /\ UNCHANGED <<world, jwt, sessionVars, scopes, fetchVars, unseen, adding, changes, failures>>

\* The sentinel tool is added and removed.
TriggerToolsListChanged(r) ==
    /\ At(r, "trigger")
    /\ notify' = [notify EXCEPT !.pending = TRUE]
    /\ Goto(r, "end")
    /\ UNCHANGED <<world, jwt, sessionVars, scopes, fetchVars, unseen, adding, changes, failures>>

MarkBroadcast ==
    /\ ~adding /\ changes < world.changes
    /\ adding' = TRUE /\ changes' = changes + 1
    /\ notify' = [notify EXCEPT !.broadcast = TRUE]
    /\ UNCHANGED <<world, jwt, q, sessionVars, scopes, fetchVars, unseen, failures>>

\* AddTools and DeleteTools of the gateway server, after markBroadcast.
AddTools ==
    /\ adding /\ adding' = FALSE
    /\ notify' = [notify EXCEPT !.pending = TRUE]
    /\ unseen' = unseen \cup {i \in Requests : Open(i)}
    /\ UNCHANGED <<world, jwt, q, sessionVars, scopes, fetchVars, changes, failures>>

\* The SDK's debounced dispatch, to the sessions there are.
DispatchListChanged ==
    /\ notify.pending
    /\ notify' = [notify EXCEPT !.pending = FALSE,
                                !.sending = @ \cup {i \in Requests : Open(i)}]
    /\ UNCHANGED <<world, jwt, q, sessionVars, scopes, fetchVars, unseen, adding, changes, failures>>

\* Mutant: a pending target hides a broadcast.
shouldDeliverTargetsFirst(s) == notify.targets = {} \/ s \in notify.targets

shouldDeliver(s) ==
    notify.broadcast \/ notify.targets = {} \/ s \in notify.targets

\* notifyTargetMiddleware on one send.
NotifyTargetMiddleware(i) ==
    /\ i \in notify.sending
    /\ notify' = [notify EXCEPT !.sending = @ \ {i}]
    /\ unseen' = IF shouldDeliver(Sid(i)) THEN unseen \ {i} ELSE unseen
    /\ UNCHANGED <<world, jwt, q, sessionVars, scopes, fetchVars, adding, changes, failures>>

\* notifyWindow covers the debounce and the delivery: no claim expires while a
\* dispatch is due or under way.
NotifyQuiet ==
    /\ ~notify.pending /\ notify.sending = {} /\ ~adding
    /\ \A r \in Requests : q[r].pc \notin {"mark", "trigger"}

WindowEnds ==
    /\ Event("window") /\ NotifyQuiet
    /\ \/ notify.broadcast /\ notify' = [notify EXCEPT !.broadcast = FALSE]
       \/ \E s \in notify.targets : notify' = [notify EXCEPT !.targets = @ \ {s}]
    /\ UNCHANGED <<world, jwt, q, sessionVars, scopes, fetchVars, unseen, adding, changes, failures>>

-----------------------------------------------------------------------------
(* Time and the process. *)

Expire(s) ==
    /\ Event("expire") /\ jwt[s] = "valid"
    /\ jwt' = [jwt EXCEPT ![s] = "expired"]
    /\ UNCHANGED <<world, q, sessionVars, scopes, fetchVars, notifyVars, failures>>

\* The oldest scope passes its TTL, and the eviction loop runs.
ScopeTTL ==
    /\ Event("ttl")
    /\ \E k \in DOMAIN scopes :
          /\ ~scopes[k].expired /\ \A j \in 1..(k - 1) : scopes[j].expired
          /\ scopes' = [scopes EXCEPT ![k].expired = TRUE]
    /\ UNCHANGED <<world, jwt, q, sessionVars, fetchVars, notifyVars, failures>>

EvictExpired ==
    /\ \E k \in DOMAIN scopes : scopes[k].expired
    /\ scopes' = SelectSeq(scopes, LAMBDA e : ~e.expired)
    /\ UNCHANGED <<world, jwt, q, sessionVars, fetchVars, notifyVars, failures>>

\* The process ends and another takes its place; the session cache stays if it
\* is in Redis, its entries go if it is not.
Restart ==
    /\ Event("restart") /\ \E r \in Requests : q[r].pc \notin {"idle", "done"}
    /\ q' = [r \in Requests |->
               IF q[r].pc \in {"idle", "done"} THEN q[r]
               ELSE [NewRequest EXCEPT !.pc = "done", !.ans = "failed"]]
    /\ sess' = [r \in Requests |-> NoSession]
    /\ table' = [s \in Sids |-> None] /\ live' = [s \in Sids |-> None]
    /\ scopes' = <<>> /\ pool' = [s \in Sids |-> None]
    /\ users' = [u \in UserIds |-> [open |-> FALSE, hdr |-> None]]
    /\ cached' \in {cached, [s \in Sids |-> None]}
    /\ notify' = [targets |-> {}, broadcast |-> FALSE, pending |-> FALSE, sending |-> {}]
    /\ unseen' = {} /\ adding' = FALSE
    /\ UNCHANGED <<world, jwt, changes, failures>>

-----------------------------------------------------------------------------
Arrive(r) == ServeInitialize(r) \/ ServePOST(r) \/ ServeGET(r) \/ ServeDELETE(r)

Step(r) ==
    \/ ServeLive(r) \/ ServeNext(r) \/ Resurrect(r) \/ Serve(r) \/ Dispatch(r)
    \/ EndRequest(r) \/ CloseReturns(r) \/ StreamEnds(r)
    \/ Fetch(r) \/ Connect(r) \/ Store(r) \/ ListTools(r) \/ Remember(r)
    \/ HandleSelectTools(r) \/ MarkNotifyTarget(r) \/ TriggerToolsListChanged(r)

SessionStep(i) ==
    \/ TimerFires(i) \/ TimerCloses(i) \/ WaitReturns(i) \/ Unlink(i)
    \/ OnGatewaySessionEnd(i) \/ NotifyTargetMiddleware(i)

Progress ==
    \/ \E r \in Requests : Step(r) \/ SessionStep(r)
    \/ AddTools \/ DispatchListChanged

Next ==
    \/ Progress
    \/ \E r \in Requests : Arrive(r)
    \/ MarkBroadcast \/ WindowEnds \/ ScopeTTL \/ EvictExpired \/ Restart
    \/ \E s \in Sids : Expire(s)

\* Goroutines run, timers fire, sends are done and network calls return.
Spec == Init /\ [][Next]_vars /\ WF_vars(Progress)

-----------------------------------------------------------------------------
TypeOK ==
    /\ jwt \in [Sids -> {"unissued", "valid", "expired"}]
    /\ \A r \in Requests :
         /\ q[r].pc \in PCs /\ q[r].method \in {"POST", "GET", "DELETE"}
         /\ q[r].obj \in Requests \cup {None} /\ q[r].us \in UserIds \cup {None}
         /\ q[r].try \in {1, 2} /\ q[r].met \in BOOLEAN /\ q[r].before \subseteq Requests
         /\ q[r].ans \in {"none", "ok", "notFound", "closing", "failed"}
         /\ q[r].pc \in PostPCs \cup {"serve", "closing", "stream"} =>
              q[r].obj # None /\ sess[q[r].obj].st # "none" /\ Sid(q[r].obj) = Sid(r)
    /\ \A i \in Requests :
         /\ sess[i].own \in {"none", "sdk", "resurrected"}
         /\ sess[i].st \in {"none", "open", "closing", "ended"}
         /\ sess[i].refs \in 0..Cardinality(Requests)
         /\ sess[i].timer \in {"nil", "armed", "off"} /\ sess[i].fired \in BOOLEAN
         /\ sess[i].watch \in {"none", "wait", "unlink", "scope", "pool", "cache", "done"}
    /\ table \in [Sids -> Requests \cup {None}] /\ live \in [Sids -> Requests \cup {None}]
    /\ \A k \in DOMAIN scopes : scopes[k].sid \in Sids /\ scopes[k].expired \in BOOLEAN
    /\ pool \in [Sids -> UserIds \cup {None}] /\ cached \in [Sids -> UserIds \cup {None}]
    /\ users \in [UserIds -> [open : BOOLEAN, hdr : Requests \cup {None}]]
    /\ notify \in [targets : SUBSET Sids, broadcast : BOOLEAN, pending : BOOLEAN,
                   sending : SUBSET Requests]
    /\ unseen \subseteq Requests /\ adding \in BOOLEAN
    /\ changes \in 0..world.changes /\ failures \in 0..MaxFailures

\* A gateway session has at most one open server session on a process, and it is
\* the one that requests find: concurrent requests for an unknown id yield one
\* session (sessionResurrectionHandler.mu), and DELETE reaches it.
OneSession ==
    \A i \in Requests : Open(i) => i \in {live[Sid(i)], table[Sid(i)]} /\
        \A j \in Requests \ {i} : Sid(j) = Sid(i) => ~Open(j)

\* A request with a valid JWT is turned away, as one without a session or for a
\* session that is closing, only if its session was closing at some time between
\* its arrival and its answer: sessions that ended earlier, by their idle timer or
\* a DELETE, and restarts go unnoticed, since what is closed is gone from the
\* table before it could be found again, and is resurrected
\* (session_resurrection.go).
RefusedOnlyByClose ==
    \A r \in Requests :
        q[r].ans \in {"notFound", "closing"} /\ jwt[Sid(r)] = "valid" => q[r].met

\* An upstream session opened for a user is in the pool, or in the hands of the
\* fetch that has just connected it: none is left open and forgotten.
UserSessionsAccounted ==
    \A u \in UserIds : users[u].open =>
        \/ pool[Sid(u[1])] = u
        \/ q[u[1]].pc = "store" /\ q[u[1]].us = u

\* tools/list reaches the upstream with the headers of its own request or of one
\* that overlaps it, never with those of a request that was over before
\* (cachedUserSession: a refreshed token is used from then on).
HeadersCurrent ==
    \A r \in Requests : At(r, "list") => users[q[r].us].hdr \notin q[r].before

\* When no notification is due or under way, every open session has been told of
\* every change of its tool list: its own selections and the changes of the
\* gateway's tools, whichever dispatches were coalesced (shouldDeliver).
ToldWhenQuiet == NotifyQuiet => unseen = {}

\* Nothing of the session runs.  The client of a session made by initialize must
\* have sent notifications/initialized.
Quiescent(s) ==
    /\ \A r \in Requests : Sid(r) = s => q[r].pc \in {"idle", "done"}
    /\ \A i \in Requests : Sid(i) = s =>
         \/ sess[i].st = "none"
         \/ sess[i].st = "ended" /\ sess[i].watch = "done"

\* Once nothing of a session runs any more its scope and its pooled upstream
\* session are gone, and so are its cached ids unless the store failed: whatever
\* a request set up while its session was closing is released, too.  Meanwhile
\* the scopes stay within their limit.
ReleasedAtEnd ==
    /\ Len(scopes) <= MaxScopes
    /\ \A s \in Sids : Quiescent(s) =>
         /\ ~HasScope(s) /\ pool[s] = None
         /\ (failures = 0 /\ ~Event("restart")) => cached[s] = None

Reachable == \A s \in Sids : live[s] # None => Open(live[s])

\* Nobody waits for good: requests that arrive are answered, whatever Close,
\* resurrection or fetch they meet, and sessions that are closing do not stay in
\* the table of resurrected sessions, where they would turn requests away.
NobodyStuck ==
    (\E r \in Requests : UnderWay(r)) \/ ~Reachable
       ~> Reachable /\ \A r \in Requests : ~UnderWay(r)
=============================================================================
