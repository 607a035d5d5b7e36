------------------------------- MODULE Router -------------------------------
(***************************************************************************)
(* The data plane of the gateway: requests of gateway sessions that the    *)
(* external processor routes to upstream MCP servers.  A request is routed *)
(* (internal/routing/router_202511.go), initialises a backend session on   *)
(* the way if its gateway session has none (one initialisation at a time   *)
(* per process, gateway session and server: initGroup), is sent, and its   *)
(* response is handled (response.go), which may forget a session (404) or  *)
(* a user's token (401), or opens a stream in which the server asks the    *)
(* client a question under a rewritten id (mcp-router/elicitation.go).     *)
(* Users supply tokens on the broker's token page (broker/tokens.go).      *)
(*                                                                         *)
(* Several processes (Pods) share the session cache, the id map and the    *)
(* token elicitations when these are kept in Redis, where every operation  *)
(* may fail; kept in memory they belong to one process and die with it.    *)
(*                                                                         *)
(* Ids the code draws at random are named after their maker: the backend   *)
(* session, the token elicitation and the question (a stream asks at most  *)
(* one) of request r are called r, the token that post k supplies is k.    *)
(***************************************************************************)
EXTENDS Naturals, FiniteSets

CONSTANTS Gateways,     \* gateway sessions; each is one user's
          Servers,      \* upstream MCP servers
          Requests,     \* requests of clients
          Posts,        \* token forms users submit
          Pods,         \* gateway processes
          None,
          Worlds,       \* the situations of a run, see WorldType
          MaxFailures   \* bound: failing operations of Redis and of the network

\* The static part of a situation.  kind and the three functions after it
\* describe the requests ("off" requests are never sent), sub says what their
\* Authorization header has: the JWT of their user, no JWT at all or one without a
\* sub claim; user says who submits a form, elicits which servers have
\* tokenURLElicitation, flagged which clients have declared elicitation, events
\* what else may happen.
WorldType ==
    [mode : {"memory", "redis"},
     kind : [Requests -> {"initialize", "tool", "prompt", "answer", "off"}],
     gw : [Requests -> Gateways], server : [Requests -> Servers],
     pod : [Requests -> Pods], sub : [Requests -> {"user", "none", "broken"}],
     user : [Posts -> Gateways \cup {None}],
     elicits : SUBSET Servers, flagged : SUBSET Gateways,
     events : SUBSET {"expire", "terminate", "forget", "refuse", "outdate",
                      "late", "config", "crash", "failure", "abort"}]

\* What is kept in memory belongs to one process, which then serves all requests.
ASSUME WorldsAssumption ==
    /\ Worlds \subseteq WorldType
    /\ \A w \in Worlds : w.mode = "memory" => \A r, x \in Requests : w.pod[r] = w.pod[x]
    /\ None \notin Requests \cup Posts \cup Gateways
    /\ MaxFailures \in Nat

VARIABLES
    world,      \* the situation, fixed
    q,          \* the requests: where they are and what they carry
    cache,      \* SessionCache: per gateway session, backend sessions and tokens
    flag,       \* SessionCache: clients that support elicitation
    valid,      \* gateway sessions whose JWT has not expired
    configured, \* servers of the current configuration
    backend,    \* the backend session of each request that initialised one
    timer,      \* its time.AfterFunc(ttl, sessionCloser)
    elic,       \* the token elicitation of each request that stored one
    asked,      \* the id map entry of each stream
    form,       \* the token forms
    token,      \* the tokens as their issuers see them
    failures    \* operations that failed so far

vars == <<world, q, cache, flag, valid, configured, backend, timer, elic, asked,
          form, token, failures>>

Kind(r) == world.kind[r]
Gw(r) == world.gw[r]
Server(r) == world.server[r]
Pod(r) == world.pod[r]
Sub(r) == world.sub[r]
Memory == world.mode = "memory"
Elicits(r) == Server(r) \in world.elicits

NoSessions == [s \in Servers |-> None]
EmptyHash == [session |-> NoSessions, token |-> NoSessions]

NewRequest == [pc |-> "idle", session |-> None, token |-> None,
               re |-> None, status |-> 0]

\* Phases in which a request leads an initialisation; one that finds a leader
\* follows it.
Leading == {"check", "prepare", "initPurge", "connect", "expiry", "reset", "add"}
PCs == Leading \cup {"idle", "token", "purge", "flag", "elicit", "lookup", "init",
                     "follow", "sent", "answered", "stream", "remove", "done"}

Init ==
    /\ world \in Worlds
    /\ q = [r \in Requests |-> NewRequest]
    /\ cache = [g \in Gateways |-> EmptyHash]
    /\ flag = [g \in Gateways |-> g \in world.flagged]
    /\ valid = [g \in Gateways |-> TRUE]
    /\ configured = Servers
    /\ backend = [r \in Requests |-> "none"]
    /\ timer = [r \in Requests |-> "off"]
    /\ elic = [r \in Requests |-> "none"]
    /\ asked = [r \in Requests |-> "none"]
    /\ form = [k \in Posts |-> [pc |-> "idle", id |-> None]]
    /\ token = [k \in Posts |-> "good"]
    /\ failures = 0

-----------------------------------------------------------------------------
(* Failures.  An operation of Redis or of the network fails (Fails) or does  *)
(* not (Works); operations on maps in memory do not fail.                    *)

Works == failures' = failures
Fails ==
    /\ "failure" \in world.events
    /\ failures < MaxFailures
    /\ failures' = failures + 1
RedisFails == ~Memory /\ Fails

(* The session cache (internal/session/cache.go).  Every mutation is one     *)
(* step: in memory it holds innerMu, in Redis it is one command or pipeline. *)

GetSession(r) == cache[Gw(r)].session[Server(r)]

AddSession(r, b) == [cache EXCEPT ![Gw(r)].session[Server(r)] = b]

RemoveServerSession(r) == [cache EXCEPT ![Gw(r)].session[Server(r)] = None]

DeleteSessions(g) ==
    /\ cache' = [cache EXCEPT ![g] = EmptyHash]
    /\ flag' = [flag EXCEPT ![g] = FALSE]

SetClientElicitation(g) == [flag EXCEPT ![g] = TRUE]

GetClientElicitation(g) == flag[g]

SetUserToken(g, s, k) == [cache EXCEPT ![g].token[s] = k]

DeleteUserToken(g, s) == [cache EXCEPT ![g].token[s] = None]

\* checkUpstreamJWTExpiry
Outdated(k) == k # None /\ token[k] = "outdated"

\* GetUserToken: a token, or None on a miss.  An outdated token is a miss and is
\* deleted, in memory under the same lock, in Redis by a command of its own
\* (Purge).
GetUserToken(r) ==
    LET k == cache[Gw(r)].token[Server(r)] IN IF Outdated(k) THEN None ELSE k

GetUserTokenCache(r) ==
    IF Memory /\ Outdated(cache[Gw(r)].token[Server(r)])
    THEN DeleteUserToken(Gw(r), Server(r)) ELSE cache

MustPurge(r) == ~Memory /\ Outdated(cache[Gw(r)].token[Server(r)])

-----------------------------------------------------------------------------
(* Routing a request.                                                        *)

At(r, pc) == q[r].pc = pc
Goto(r, pc) == q' = [q EXCEPT ![r].pc = pc]
Reply(r, status) == q' = [q EXCEPT ![r] = [@ EXCEPT !.pc = "done", !.status = status]]

\* A client knows its session id once its initialize request was answered.
Known(g) == \A r \in Requests : Kind(r) = "initialize" /\ Gw(r) = g => At(r, "done")

\* JWTManager.Validate and GetExpiresIn: both parse the JWT, which fails once it
\* has expired.
Validate(g) == valid[g]
GetExpiresIn(g) == valid[g]

ValidateSession(r) == Validate(Gw(r))

\* The routing table and the configuration name the servers there are.
LookupName(r) == Server(r) \in configured
GetServerConfigByName(s) == s \in configured

\* routeToolCall: an unknown name is answered by the router itself; a server with
\* tokenURLElicitation needs the user's token first.
RouteToolCall(r) ==
    /\ At(r, "idle") /\ Kind(r) = "tool" /\ Known(Gw(r))
    /\ \/ ~ValidateSession(r) /\ Reply(r, 401)
       \/ ValidateSession(r) /\ ~LookupName(r) /\ Reply(r, 200)
       \/ /\ ValidateSession(r) /\ LookupName(r)
          /\ Goto(r, IF Elicits(r) THEN "token" ELSE "lookup")
    /\ UNCHANGED <<world, cache, flag, valid, configured, backend, timer, elic,
                   asked, form, token, failures>>

\* routePromptGet: the same without the token.
RoutePromptGet(r) ==
    /\ At(r, "idle") /\ Kind(r) = "prompt" /\ Known(Gw(r))
    /\ \/ ~ValidateSession(r) /\ Reply(r, 401)
       \/ ValidateSession(r) /\ ~LookupName(r) /\ Reply(r, 200)
       \/ ValidateSession(r) /\ LookupName(r) /\ Goto(r, "lookup")
    /\ UNCHANGED <<world, cache, flag, valid, configured, backend, timer, elic,
                   asked, form, token, failures>>

\* resolveUpstreamToken: the lookup of the user's token.
ResolveUpstreamToken(r) ==
    /\ At(r, "token")
    /\ \/ Works /\ cache' = GetUserTokenCache(r)
          /\ \/ MustPurge(r) /\ Goto(r, "purge")
             \/ ~MustPurge(r) /\ GetUserToken(r) = None /\ Goto(r, "flag")
             \/ /\ GetUserToken(r) # None
                /\ q' = [q EXCEPT ![r] = [@ EXCEPT !.pc = "lookup", !.token = GetUserToken(r)]]
       \/ RedisFails /\ Reply(r, 500) /\ UNCHANGED cache
    /\ UNCHANGED <<world, flag, valid, configured, backend, timer, elic, asked,
                   form, token>>

\* GetUserToken in Redis: the outdated token was read, now the field is deleted,
\* whatever it holds by now; an error is ignored.
Purge(r) ==
    /\ \/ At(r, "purge") /\ Goto(r, "flag")
       \/ At(r, "initPurge") /\ Goto(r, "connect")
    /\ \/ Works /\ cache' = DeleteUserToken(Gw(r), Server(r))
       \/ RedisFails /\ UNCHANGED cache
    /\ UNCHANGED <<world, flag, valid, configured, backend, timer, elic, asked,
                   form, token>>

\* The rest of resolveUpstreamToken: a JWT without a sub claim, or a client that
\* does not support elicitation, gets an error; for the others an elicitation is
\* stored, for their user if there is a JWT, and the request goes to the broker's
\* /mcp/elicitation.
StoreElicitation(r) ==
    /\ At(r, "flag")
    /\ \/ /\ Works /\ Sub(r) # "broken" /\ GetClientElicitation(Gw(r))
          /\ Goto(r, "elicit") /\ elic' = [elic EXCEPT ![r] = "live"]
       \/ /\ Works /\ (Sub(r) = "broken" \/ ~GetClientElicitation(Gw(r)))
          /\ Reply(r, 200) /\ UNCHANGED elic
       \/ Sub(r) # "broken" /\ RedisFails /\ Reply(r, 500) /\ UNCHANGED elic
    /\ UNCHANGED <<world, cache, flag, valid, configured, backend, timer, asked,
                   form, token>>

\* Lookup of a token elicitation: one past its time is not found.
LookupElicitation(r) == elic[r] = "live"

\* ElicitationHandler.ServeHTTP: the client is told the URL of the token page.
ServeElicitation(r) ==
    /\ At(r, "elicit")
    /\ \/ Works /\ LookupElicitation(r) /\ Reply(r, 32042)
       \/ Works /\ ~LookupElicitation(r) /\ Reply(r, 400)
       \/ RedisFails /\ Reply(r, 500)
    /\ UNCHANGED <<world, cache, flag, valid, configured, backend, timer, elic,
                   asked, form, token>>

\* routeToUpstream: with a cached backend session the request is sent at once.
RouteToUpstream(r) ==
    /\ At(r, "lookup")
    /\ \/ /\ Works /\ GetSession(r) # None
          /\ q' = [q EXCEPT ![r] = [@ EXCEPT !.pc = "sent", !.session = GetSession(r)]]
       \/ Works /\ GetSession(r) = None /\ Goto(r, "init")
       \/ RedisFails /\ Reply(r, 500)
    /\ UNCHANGED <<world, cache, flag, valid, configured, backend, timer, elic,
                   asked, form, token>>

-----------------------------------------------------------------------------
(* initializeMCPServerSession.                                               *)

\* Mutant: the key of initGroup leaves out the gateway session.
GroupKeyServerOnly(r) == <<Pod(r), Server(r)>>

\* initGroup is a field of one process; its key is session/server.
GroupKey(r) == <<Pod(r), Gw(r), Server(r)>>

Leads(l, r) == q[l].pc \in Leading /\ GroupKey(l) = GroupKey(r)
Followers(r) == {f \in Requests : At(f, "follow") /\ GroupKey(f) = GroupKey(r)}

\* initGroup.Do: the first caller runs the function, the others wait for it.
InitGroupDo(r) ==
    /\ At(r, "init")
    /\ \/ ~GetServerConfigByName(Server(r)) /\ Reply(r, 500)
       \/ /\ GetServerConfigByName(Server(r))
          /\ Goto(r, IF \E l \in Requests : Leads(l, r) THEN "follow" ELSE "check")
    /\ UNCHANGED <<world, cache, flag, valid, configured, backend, timer, elic,
                   asked, form, token, failures>>

\* Mutant: an error reaches only the caller that met it.
FinishLeaderOnly(r, b, status) ==
    q' = [x \in Requests |->
             IF b # None /\ x \in Followers(r) \cup {r}
             THEN [q[x] EXCEPT !.pc = "sent", !.session = b]
             ELSE IF x = r THEN [q[x] EXCEPT !.pc = "done", !.status = status]
             ELSE q[x]]

\* Do returns: the leader and all who wait get its backend session and are sent,
\* or get its error.
Finish(r, b, status) ==
    q' = [x \in Requests |->
             IF x \notin Followers(r) \cup {r} THEN q[x]
             ELSE IF b # None THEN [q[x] EXCEPT !.pc = "sent", !.session = b]
             ELSE [q[x] EXCEPT !.pc = "done", !.status = status]]

\* Mutant: there is no second look.
CheckAgainSkipped(r) ==
    /\ At(r, "check") /\ Goto(r, "prepare")
    /\ UNCHANGED <<world, cache, flag, valid, configured, backend, timer, elic,
                   asked, form, token, failures>>

\* The second look into the cache, now as the only initialiser of this process.
CheckAgain(r) ==
    /\ At(r, "check")
    /\ \/ Works /\ GetSession(r) # None /\ Finish(r, GetSession(r), 0)
       \/ Works /\ GetSession(r) = None /\ Goto(r, "prepare")
       \/ RedisFails /\ Finish(r, None, 500)
    /\ UNCHANGED <<world, cache, flag, valid, configured, backend, timer, elic,
                   asked, form, token>>

\* The user's token (an error counts as a miss) and the elicitation flag are read
\* for the headers and capabilities of the new session.
Prepare(r) ==
    /\ At(r, "prepare")
    /\ cache' = IF Elicits(r) THEN GetUserTokenCache(r) ELSE cache
    /\ \/ Works /\ Goto(r, IF Elicits(r) /\ MustPurge(r) THEN "initPurge" ELSE "connect")
       \/ RedisFails /\ Goto(r, "connect")
       \/ RedisFails /\ Finish(r, None, 500)
    /\ UNCHANGED <<world, flag, valid, configured, backend, timer, elic, asked,
                   form, token>>

\* InitForClient: an initialize request back through the gateway, see
\* RouteBrokerPassthrough for the other end of it.  It fails with the network, or
\* with the context of the leader's own request.
Connect(r) ==
    /\ At(r, "connect")
    /\ \/ Works /\ Goto(r, "expiry") /\ backend' = [backend EXCEPT ![r] = "open"]
       \/ Fails /\ Finish(r, None, 500) /\ UNCHANGED backend
    /\ UNCHANGED <<world, cache, flag, valid, configured, timer, elic, asked,
                   form, token>>

\* clientHandle.Close, tried once: a failure is only logged and leaves the session
\* with the upstream server ("left").
Close(b) ==
    \E end \in {"closed"} \cup (IF "failure" \in world.events THEN {"left"} ELSE {}) :
       backend' = [backend EXCEPT ![b] = IF @ = "open" THEN end ELSE @]

\* GetExpiresIn: if the gateway session expired meanwhile, sessionCloser runs at
\* once (Close here, DeleteSessions in Reset).
CheckExpiry(r) ==
    /\ At(r, "expiry")
    /\ \/ GetExpiresIn(Gw(r)) /\ Goto(r, "add") /\ UNCHANGED backend
       \/ ~GetExpiresIn(Gw(r)) /\ Close(r) /\ Goto(r, "reset")
    /\ UNCHANGED <<world, cache, flag, valid, configured, timer, elic, asked,
                   form, token, failures>>

Reset(r) ==
    /\ At(r, "reset") /\ Finish(r, None, 401)
    /\ \/ Works /\ DeleteSessions(Gw(r))
       \/ RedisFails /\ UNCHANGED <<cache, flag>>
    /\ UNCHANGED <<world, valid, configured, backend, timer, elic, asked, form,
                   token>>

\* Mutant: the new session is not closed when it cannot be stored.
StoreSessionUnclosed(r) ==
    /\ At(r, "add")
    /\ \/ /\ Works /\ cache' = AddSession(r, r) /\ Finish(r, r, 0)
          /\ timer' = [timer EXCEPT ![r] = "armed"] /\ UNCHANGED backend
       \/ /\ RedisFails /\ UNCHANGED cache /\ UNCHANGED backend
          /\ Finish(r, None, 500) /\ UNCHANGED timer
    /\ UNCHANGED <<world, flag, valid, configured, elic, asked, form, token>>

\* AddSession and the timer that runs sessionCloser when the gateway session
\* expires.  The pipeline may have been executed though it reports an error; the
\* new session is closed then, and nobody is told of it.
StoreSession(r) ==
    /\ At(r, "add")
    /\ \/ /\ Works /\ cache' = AddSession(r, r) /\ Finish(r, r, 0)
          /\ timer' = [timer EXCEPT ![r] = "armed"] /\ UNCHANGED backend
       \/ /\ RedisFails /\ cache' \in {cache, AddSession(r, r)} /\ Close(r)
          /\ Finish(r, None, 500) /\ UNCHANGED timer
    /\ UNCHANGED <<world, flag, valid, configured, elic, asked, form, token>>

\* Mutant: the timer closes the session and leaves it in the cache.
SessionCloserKeepsCache(r) ==
    /\ timer[r] = "armed" /\ ~valid[Gw(r)] /\ Works
    /\ timer' = [timer EXCEPT ![r] = "fired"] /\ Close(r)
    /\ UNCHANGED <<world, q, cache, flag, valid, configured, elic, asked, form,
                   token>>

\* sessionCloser, run by the timer once the gateway session has expired: it closes
\* its own backend session and then deletes all of the gateway session.
SessionCloser(r) ==
    /\ \/ /\ timer[r] = "armed" /\ ~valid[Gw(r)] /\ Works
          /\ timer' = [timer EXCEPT ![r] = "closing"] /\ Close(r)
          /\ UNCHANGED <<cache, flag>>
       \/ /\ timer[r] = "closing" /\ timer' = [timer EXCEPT ![r] = "fired"]
          /\ \/ Works /\ DeleteSessions(Gw(r))
             \/ RedisFails /\ UNCHANGED <<cache, flag>>
          /\ UNCHANGED backend
    /\ UNCHANGED <<world, q, valid, configured, elic, asked, form, token>>

-----------------------------------------------------------------------------
(* Responses and streams.                                                    *)

\* The upstream server answers: 404 for a session it does not know, 401 without a
\* token it accepts (a request without one may still be let through).
Statuses(r) ==
    LET unknown == q[r].session # None /\ backend[q[r].session] \notin {"open", "left"}
        refused == q[r].token # None /\ token[q[r].token] # "good"
        bare == q[r].token = None /\ Kind(r) # "initialize" /\ Elicits(r)
    IN  {status \in {200, 401, 404} :
            /\ status = 200 => ~unknown /\ ~refused
            /\ status = 401 => refused \/ bare
            /\ status = 404 => unknown}

Answer(r) ==
    /\ At(r, "sent")
    /\ \E status \in Statuses(r) :
          q' = [q EXCEPT ![r] = [@ EXCEPT !.pc = "answered", !.status = status]]
    /\ UNCHANGED <<world, cache, flag, valid, configured, backend, timer, elic,
                   asked, form, token, failures>>

\* routeBrokerPassthrough for the initialize request of a client; the broker
\* answers it with a new gateway session.
RouteBrokerPassthrough(r) ==
    /\ At(r, "idle") /\ Kind(r) = "initialize"
    /\ Goto(r, "sent")
    /\ UNCHANGED <<world, cache, flag, valid, configured, backend, timer, elic,
                   asked, form, token, failures>>

\* HandleResponse.  404 removes the backend session of the request's server, 401
\* the user's token for it, whichever they are by now.  An elicitation response
\* carries no server name and removes nothing.
HandleNotFound(r) ==
    /\ At(r, "answered") /\ q[r].status = 404
    /\ \/ Works /\ cache' = IF Kind(r) = "answer" THEN cache ELSE RemoveServerSession(r)
       \/ RedisFails /\ UNCHANGED cache
    /\ Goto(r, "done")
    /\ UNCHANGED <<world, flag, valid, configured, backend, timer, elic, asked,
                   form, token>>

HandleUnauthorized(r) ==
    /\ At(r, "answered") /\ q[r].status = 401
    /\ \/ /\ Works /\ Kind(r) # "answer" /\ GetServerConfigByName(Server(r))
          /\ cache' = DeleteUserToken(Gw(r), Server(r))
       \/ /\ Works /\ ~(Kind(r) # "answer" /\ GetServerConfigByName(Server(r)))
          /\ UNCHANGED cache
       \/ RedisFails /\ UNCHANGED cache
    /\ Goto(r, "done")
    /\ UNCHANGED <<world, flag, valid, configured, backend, timer, elic, asked,
                   form, token>>

\* The response of a tool call is streamed through the rewriter if the flag, read
\* again in the response phase, says so.
StreamBody(r) == Kind(r) = "tool" /\ GetClientElicitation(Gw(r))

\* A successful response; the flag of a client that initialises is recorded while
\* its session is valid.
HandleSuccess(r) ==
    /\ At(r, "answered") /\ q[r].status = 200
    /\ \/ /\ Works
          /\ Goto(r, IF StreamBody(r) THEN "stream" ELSE "done")
          /\ flag' = IF Kind(r) = "initialize" /\ GetExpiresIn(Gw(r))
                     THEN SetClientElicitation(Gw(r)) ELSE flag
       \/ RedisFails /\ Goto(r, "done") /\ UNCHANGED flag
    /\ UNCHANGED <<world, cache, valid, configured, backend, timer, elic, asked,
                   form, token>>

\* maybeRewriteElicitation: the server's question gets a gateway id.  If the entry
\* cannot be stored the line goes out as it is.
Rewrite(r) ==
    /\ At(r, "stream") /\ asked[r] = "none"
    /\ \/ Works /\ asked' = [asked EXCEPT ![r] = "live"]
       \/ RedisFails /\ asked' = [asked EXCEPT ![r] = "gone"]
    /\ UNCHANGED <<world, q, cache, flag, valid, configured, backend, timer, elic,
                   form, token>>

RemoveQuestion(r) == [asked EXCEPT ![r] = IF @ = "live" THEN "gone" ELSE @]

\* Flush at the end of the stream: the entry is removed, if Redis lets us.
EndStream(r) ==
    /\ At(r, "stream") /\ Goto(r, "done")
    /\ \/ Works /\ asked' = RemoveQuestion(r)
       \/ RedisFails /\ UNCHANGED asked
    /\ UNCHANGED <<world, cache, flag, valid, configured, backend, timer, elic,
                   form, token>>

\* Process returns early since the client or Envoy is gone; the deferred Flush
\* runs with a context that may be cancelled, which Redis minds.
Abort(r) ==
    /\ "abort" \in world.events /\ q[r].pc \in {"sent", "stream"}
    /\ Reply(r, 499)
    /\ \/ asked' = RemoveQuestion(r)
       \/ ~Memory /\ UNCHANGED asked
    /\ UNCHANGED <<world, cache, flag, valid, configured, backend, timer, elic,
                   form, token, failures>>

\* Lookup in the id map.
LookupQuestion(x) == asked[x] = "live"

\* routeElicitationResponse: the client answers the question of request x, which
\* must be its own session's.
RouteElicitationResponse(r) ==
    /\ At(r, "idle") /\ Kind(r) = "answer"
    /\ \E x \in Requests :
          /\ asked[x] # "none"
          /\ \/ Works /\ ~ValidateSession(r) /\ Reply(r, 401)
             \/ ValidateSession(r) /\ RedisFails /\ Reply(r, 500)
             \/ /\ Works /\ ValidateSession(r)
                /\ \/ ~LookupQuestion(x) /\ Reply(r, 400)
                   \/ LookupQuestion(x) /\ Gw(x) # Gw(r) /\ Reply(r, 403)
                   \/ /\ LookupQuestion(x) /\ Gw(x) = Gw(r)
                      /\ ~GetServerConfigByName(Server(x)) /\ Reply(r, 500)
                   \/ /\ LookupQuestion(x) /\ Gw(x) = Gw(r) /\ GetServerConfigByName(Server(x))
                      /\ q' = [q EXCEPT ![r] = [@ EXCEPT !.pc = "remove",
                                                         !.session = q[x].session, !.re = x]]
    /\ UNCHANGED <<world, cache, flag, valid, configured, backend, timer, elic,
                   asked, form, token>>

\* Its second half: the entry is removed, then the answer is sent.
RemoveAnswered(r) ==
    /\ At(r, "remove") /\ Goto(r, "sent")
    /\ \/ Works /\ asked' = RemoveQuestion(q[r].re)
       \/ RedisFails /\ UNCHANGED asked
    /\ UNCHANGED <<world, cache, flag, valid, configured, backend, timer, elic,
                   form, token>>

-----------------------------------------------------------------------------
(* The token page.                                                           *)

\* handleGet: the user of form k opens the URL given to request r.
OpenForm(k) ==
    /\ form[k].pc = "idle" /\ world.user[k] # None
    /\ \E r \in Requests :
          /\ q[r].status = 32042
          /\ \/ /\ Works /\ LookupElicitation(r)
                /\ form' = [form EXCEPT ![k] = [pc |-> "open", id |-> r]]
             \/ Works /\ ~LookupElicitation(r) /\ form' = [form EXCEPT ![k].pc = "done"]
             \/ RedisFails /\ form' = [form EXCEPT ![k].pc = "done"]
    /\ UNCHANGED <<world, q, cache, flag, valid, configured, backend, timer, elic,
                   asked, token>>

\* Claim deletes the entry and says whether it was still alive.
Claim(r) == [elic EXCEPT ![r] = "gone"]

\* Mutant: whoever knows the URL may supply the token.
IdentityUnchecked(k, r) == TRUE

\* The verified subject of the form must be the one the entry was stored for; an
\* entry without a subject is open to whoever has its URL.
IdentityMatches(k, r) == Sub(r) = "none" \/ world.user[k] = Gw(r)

\* handlePost up to the claim and the checks that follow it: a claimed entry is
\* used up even if they fail.
SubmitForm(k) ==
    LET r == form[k].id IN
    /\ form[k].pc = "open"
    /\ \/ /\ Works
          /\ elic' = Claim(r)
          /\ form' = [form EXCEPT ![k].pc =
                IF LookupElicitation(r) /\ IdentityMatches(k, r) /\ valid[Gw(r)]
                THEN "claimed" ELSE "done"]
       \/ /\ RedisFails /\ elic' \in {elic, Claim(r)}
          /\ form' = [form EXCEPT ![k].pc = "done"]
    /\ UNCHANGED <<world, q, cache, flag, valid, configured, backend, timer, asked,
                   token>>

\* The end of handlePost.
StoreToken(k) ==
    LET r == form[k].id
        stored == SetUserToken(Gw(r), Server(r), k)
    IN
    /\ form[k].pc = "claimed"
    /\ form' = [form EXCEPT ![k].pc = "stored"]
    /\ \/ Works /\ cache' = stored
       \/ RedisFails /\ cache' \in {cache, stored}
    /\ UNCHANGED <<world, q, flag, valid, configured, backend, timer, elic, asked,
                   token>>

-----------------------------------------------------------------------------
(* The world around.                                                         *)

Event(e) == e \in world.events

\* Bound: sessions without requests are left alone.
Active(g) == \E r \in Requests : Kind(r) # "off" /\ Gw(r) = g

\* The JWT of gateway session g expires.
Expire(g) ==
    /\ Event("expire") /\ Active(g) /\ valid[g]
    /\ valid' = [valid EXCEPT ![g] = FALSE]
    /\ UNCHANGED <<world, q, cache, flag, configured, backend, timer, elic, asked,
                   form, token, failures>>

\* Terminate: a client deletes its session; its JWT stays valid.
Terminate(g) ==
    /\ Event("terminate") /\ Active(g)
    /\ DeleteSessions(g)
    /\ UNCHANGED <<world, q, valid, configured, backend, timer, elic, asked, form,
                   token, failures>>

\* Redis drops the hash of an expired session: every write set its TTL.
ExpireHash(g) ==
    /\ ~Memory /\ ~valid[g] /\ DeleteSessions(g)
    /\ UNCHANGED <<world, q, valid, configured, backend, timer, elic, asked, form,
                   token, failures>>

\* An upstream server forgets a session.
Forget(b) ==
    /\ Event("forget") /\ backend[b] \in {"open", "left"}
    /\ backend' = [backend EXCEPT ![b] = "lost"]
    /\ UNCHANGED <<world, q, cache, flag, valid, configured, timer, elic, asked,
                   form, token, failures>>

\* A token is revoked, or reaches its own expiry.
Spoil(k) ==
    /\ token[k] = "good" /\ form[k].pc # "idle"
    /\ \/ Event("refuse") /\ token' = [token EXCEPT ![k] = "refused"]
       \/ Event("outdate") /\ token' = [token EXCEPT ![k] = "outdated"]
    /\ UNCHANGED <<world, q, cache, flag, valid, configured, backend, timer, elic,
                   asked, form, failures>>

\* Entries reach their TTL.  Redis drops them; a token elicitation in memory is
\* no longer found and waits for reapLoop.
EntryExpires(r) ==
    /\ Event("late")
    /\ \/ /\ elic[r] = "live" /\ UNCHANGED asked
          /\ elic' = [elic EXCEPT ![r] = IF Memory THEN "stale" ELSE "gone"]
       \/ ~Memory /\ asked[r] = "live" /\ asked' = RemoveQuestion(r) /\ UNCHANGED elic
    /\ UNCHANGED <<world, q, cache, flag, valid, configured, backend, timer, form,
                   token, failures>>

ReapLoop ==
    /\ \E r \in Requests : elic[r] = "stale"
    /\ elic' = [r \in Requests |-> IF elic[r] = "stale" THEN "gone" ELSE elic[r]]
    /\ UNCHANGED <<world, q, cache, flag, valid, configured, backend, timer, asked,
                   form, token, failures>>

\* OnConfigChange: a server leaves the configuration and the routing table.
RemoveServer(s) ==
    /\ Event("config") /\ configured' = configured \ {s}
    /\ UNCHANGED <<world, q, cache, flag, valid, backend, timer, elic, asked, form,
                   token, failures>>

\* A process ends, with its requests, its timers and what it has in memory.
Crash(p) ==
    LET onPod == {r \in Requests : Pod(r) = p} IN
    /\ Event("crash") /\ onPod # {} /\ failures < MaxFailures /\ failures' = failures + 1
    /\ q' = [r \in Requests |->
               IF r \in onPod /\ q[r].pc \notin {"idle", "done"}
               THEN [q[r] EXCEPT !.pc = "done", !.status = 503] ELSE q[r]]
    /\ timer' = [r \in Requests |->
               IF r \in onPod /\ (timer[r] # "off" \/ backend[r] = "open") THEN "lost"
               ELSE timer[r]]
    /\ IF Memory
       THEN /\ cache' = [g \in Gateways |-> EmptyHash]
            /\ flag' = [g \in Gateways |-> FALSE]
            /\ elic' = [r \in Requests |-> IF elic[r] = "none" THEN "none" ELSE "gone"]
            /\ asked' = [r \in Requests |-> IF asked[r] = "none" THEN "none" ELSE "gone"]
            /\ form' = [k \in Posts |-> IF form[k].pc = "claimed"
                                        THEN [form[k] EXCEPT !.pc = "done"] ELSE form[k]]
       ELSE UNCHANGED <<cache, flag, elic, asked, form>>
    /\ UNCHANGED <<world, valid, configured, backend, token>>

-----------------------------------------------------------------------------
\* RouteRequest: the body of a request arrives and is routed by its kind.
RouteRequest(r) ==
    \/ RouteElicitationResponse(r) \/ RouteToolCall(r) \/ RoutePromptGet(r)
    \/ RouteBrokerPassthrough(r)

\* What a request does afterwards.
Step(r) ==
    \/ ResolveUpstreamToken(r) \/ Purge(r) \/ StoreElicitation(r) \/ ServeElicitation(r)
    \/ RouteToUpstream(r) \/ InitGroupDo(r) \/ CheckAgain(r) \/ Prepare(r) \/ Connect(r)
    \/ CheckExpiry(r) \/ Reset(r) \/ StoreSession(r) \/ Answer(r) \/ HandleNotFound(r)
    \/ HandleUnauthorized(r) \/ HandleSuccess(r) \/ EndStream(r) \/ RemoveAnswered(r)

Next ==
    \/ \E r \in Requests :
          \/ RouteRequest(r) \/ Step(r) \/ SessionCloser(r) \/ Rewrite(r) \/ Abort(r)
          \/ Forget(r) \/ EntryExpires(r)
    \/ \E k \in Posts : OpenForm(k) \/ SubmitForm(k) \/ StoreToken(k) \/ Spoil(k)
    \/ \E g \in Gateways : Expire(g) \/ Terminate(g) \/ ExpireHash(g)
    \/ \E s \in Servers : RemoveServer(s)
    \/ \E p \in Pods : Crash(p)
    \/ ReapLoop

\* Goroutines run on, upstream servers answer and end their streams, timers fire
\* and Redis keeps its TTLs.  Nothing is assumed of clients, users and failures.
\* No request, timer or hash has more than finitely many such steps, so one
\* condition covers all of them.
Progress ==
    \/ \E r \in Requests : Step(r) \/ SessionCloser(r)
    \/ \E g \in Gateways : ExpireHash(g)

Spec == Init /\ [][Next]_vars /\ WF_vars(Progress)

-----------------------------------------------------------------------------
\* Types.
RequestType ==
    [pc : PCs, session : Requests \cup {None}, token : Posts \cup {None},
     re : Requests \cup {None},
     status : {0, 200, 400, 401, 403, 404, 499, 500, 503, 32042}]
HashType == [session : [Servers -> Requests \cup {None}], token : [Servers -> Posts \cup {None}]]

TypeOK ==
    /\ world \in Worlds
    /\ q \in [Requests -> RequestType]
    /\ cache \in [Gateways -> HashType]
    /\ flag \in [Gateways -> BOOLEAN] /\ valid \in [Gateways -> BOOLEAN]
    /\ configured \subseteq Servers
    /\ backend \in [Requests -> {"none", "open", "closed", "left", "lost"}]
    /\ timer \in [Requests -> {"off", "armed", "closing", "fired", "lost"}]
    /\ elic \in [Requests -> {"none", "live", "stale", "gone"}]
    /\ asked \in [Requests -> {"none", "live", "gone"}]
    /\ form \in [Posts -> [pc : {"idle", "open", "claimed", "stored", "done"},
                           id : Requests \cup {None}]]
    /\ token \in [Posts -> {"good", "refused", "outdated"}]
    /\ failures \in 0 .. MaxFailures

\* A request is only ever sent with a backend session that was initialised for its
\* own gateway session, and a call also for the server it is routed to, whether
\* the session came from the cache, from its own initialisation, from the one it
\* waited for (initGroup) or from the id map; the cache has no other sessions.
OwnSession ==
    /\ \A r \in Requests : LET b == q[r].session IN
          b # None => /\ backend[b] # "none" /\ Gw(b) = Gw(r)
                      /\ Kind(r) # "answer" => Server(b) = Server(r)
    /\ \A g \in Gateways, s \in Servers : LET b == cache[g].session[s] IN
          b # None => backend[b] # "none" /\ Gw(b) = g /\ Server(b) = s

\* A single process initialises a backend session only while the cache has none
\* for that gateway session and server: the lookup before initGroup.Do may be
\* stale, the second one inside is not.
InitOnlyWhenMissing ==
    Memory => \A r \in Requests :
                 q[r].pc \in Leading \ {"check"} => GetSession(r) = None

\* No backend session is forgotten: until clientHandle.Close has been tried, its
\* initialiser is still at work on it or its closing timer is set, unless the
\* process that had it died.  (A Close that fails is logged and not repeated: such
\* a session stays with the upstream server.)  And an entry of the id map kept in
\* memory belongs to a stream that is still open, on every way a stream may end.
OpenAccounted ==
    \A r \in Requests :
       /\ backend[r] = "open" => q[r].pc \in {"expiry", "add"} \/ timer[r] \in {"armed", "lost"}
       /\ Memory /\ asked[r] = "live" => At(r, "stream")

\* A token that is cached or sent was supplied through an entry that was stored
\* for this gateway session and this server and, if the request that stored it
\* carried its user's JWT, by that user (without a JWT the entry has no subject and
\* nobody's identity is asked for); an entry supplies one token, however many forms
\* were opened for it (Claim).
Supplied(k, g, s) ==
    LET r == form[k].id IN
    /\ form[k].pc = "stored" /\ Gw(r) = g /\ Server(r) = s
    /\ Sub(r) = "user" => world.user[k] = g
TokensOfOwner ==
    /\ \A g \in Gateways, s \in Servers :
          cache[g].token[s] # None => Supplied(cache[g].token[s], g, s)
    /\ \A r \in Requests : q[r].token # None => Supplied(q[r].token, Gw(r), Server(r))
    /\ \A j, k \in Posts :
          /\ form[j].pc \in {"claimed", "stored"} /\ form[k].pc \in {"claimed", "stored"}
          /\ form[j].id = form[k].id
          => j = k

\* Every request that entered the gateway is answered, also one that waits for
\* another request's initialisation which fails.
RequestsAnswered == \A r \in Requests : ~At(r, "idle") ~> At(r, "done")

\* When a gateway session expires, Close is tried on each of its backend sessions
\* and they leave the cache for good, also those whose initialisation was under way,
\* and whether or not Close succeeds (except sessions of a process that died).
Ended(g) ==
    /\ cache[g].session = NoSessions
    /\ \A r \in Requests : Gw(r) = g /\ backend[r] = "open" => timer[r] = "lost"
SessionsEnd == \A g \in Gateways : <>(~valid[g]) => <>[]Ended(g)
=============================================================================
