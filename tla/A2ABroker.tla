----------------------------- MODULE A2ABroker -----------------------------
(***************************************************************************)
(* The A2A half of the broker (internal/a2a): the agent index built from   *)
(* the a2aAgents configuration, the cache of agent cards, the refresh of   *)
(* the cards from their upstreams, and the two endpoints that serve them.  *)
(*                                                                         *)
(* Concurrency modelled.  config.Notify starts one goroutine per reload    *)
(* (the set Reloads), and nothing serialises them.  Every reload may leave *)
(* a background goroutine behind that fetches cards; the refresh ticker is *)
(* one more fetcher.  b.mu and the store's own lock make single steps      *)
(* atomic; everything between two critical sections interleaves.           *)
(***************************************************************************)
EXTENDS Naturals

CONSTANTS
  Keys,         \* routing keys "{namespace}/{agentPrefix}"
  Agent,        \* registrations: records with url, cred, ca and state
  GatewayCAs,   \* gateway-level CA bundles
  BadPEMs,      \* bundles that x509 refuses to parse
  Urls,         \* card URLs
  ValidatorOf,  \* what the upstream at a URL sends: "etag", "lastmod", "none"
  Cards,        \* card contents, one value per SHA-256
  PathOK,       \* <<card, key>>: every interface has the path of the key
  HostOK,       \* cards whose every interface names the gateway host
  Host,         \* the gateway's public host
  Reloads,      \* goroutines that run OnConfigChange
  Ticker,       \* the goroutine that runs Start
  Requests,     \* HTTP requests for a card
  None,         \* absent map entry, nil
  MaxLoads,     \* bound on the number of configuration loads
  MaxClock      \* bound on the number of card publications

NoPEM == ""

Fetchers == Reloads \cup {Ticker}
Stamp == 1 .. MaxClock

ASSUME A2AAssumption ==
  /\ Agent \subseteq [url : Urls, cred : STRING, ca : STRING, state : STRING]
  /\ None \notin Agent /\ None \notin Urls \X Stamp /\ None \notin Keys
  /\ None \notin [src : Urls, at : Stamp]
  /\ None \notin [card : Cards, etag : (Urls \X Stamp) \cup {None},
                  lm : 0 .. MaxClock, src : Urls]
  /\ Ticker \notin Reloads
  /\ ValidatorOf \in [Urls -> {"etag", "lastmod", "none"}]
  /\ HostOK \subseteq Cards /\ PathOK \subseteq Cards \X Keys
  /\ MaxLoads \in Nat /\ MaxClock \in Nat \ {0}

VARIABLES
  cfgAgents,    \* MCPServersConfig.A2AAgents, by routing key
  cfgCA,        \* MCPServersConfig.GatewayCACertPEM
  loader,       \* loadConfig: "idle", or "ca" between its two setters
  loads,        \* loads so far
  pub,          \* what the upstream at each URL publishes now
  clock,        \* publications so far, the stamp of the latest
  agents,       \* Broker.agents
  invalid,      \* Broker.invalid: the rejected version stands for the reason
  host,         \* Broker.externalHost
  caCertPEM,    \* Broker.caCertPEM
  clients,      \* Broker.clients: the trust inputs of the cached client
  store,        \* the card store
  rpc, rnext, rprev, rtodo, rpending,             \* reload goroutines
  fpc, fqueue, fkey, fagent, fca, fhost, fprev,   \* fetchers
  ftrust, fresp,
  qpc, qkey, qcard                                \* card requests

cfgVars == <<cfgAgents, cfgCA, loader, loads>>
pubVars == <<pub, clock>>
brokerVars == <<agents, invalid, host, caCertPEM, clients>>
reloadVars == <<rpc, rnext, rprev, rtodo, rpending>>
fetchVars == <<fpc, fqueue, fkey, fagent, fca, fhost, fprev, ftrust, fresp>>
reqVars == <<qpc, qkey, qcard>>
vars == <<cfgVars, pubVars, brokerVars, store, reloadVars, fetchVars, reqVars>>

EmptyMap == [k \in Keys |-> None]

Version == [src : Urls, at : Stamp]
ETag == (Urls \X Stamp) \cup {None}
\* CardEntry; Raw and SHA256 are the card.  src, the URL the bytes were
\* downloaded from, is not in the code: the properties speak about it.
CardEntry == [card : Cards, etag : ETag, lm : 0 .. MaxClock, src : Urls]
Response == [status : {"304", "200"}, card : Cards, etag : ETag,
             lm : 0 .. MaxClock, at : Stamp]

-----------------------------------------------------------------------------
(* Pure helpers *)

agentEnabled(a) == a.state \in {"", "Enabled"}

agentFingerprint(a) == <<a.url, a.cred, a.ca>>

fetchInputsChanged(old, cur) == agentFingerprint(old) # agentFingerprint(cur)

\* validateCard: every interface has the path of the key and, when the
\* gateway host is known, names that host.
validateCard(c, h, k) == <<c, k>> \in PathOK /\ (h = "" \/ c \in HostOK)

\* Mutant: the fingerprint comparison is dropped.
stillCurrentAnyAgent(k, a, gwCA, h) == agents[k] # None /\ caCertPEM = gwCA /\ host = h

stillCurrent(k, a, gwCA, h) ==
  /\ agents[k] # None
  /\ agentFingerprint(agents[k]) = agentFingerprint(a)
  /\ caCertPEM = gwCA
  /\ host = h

\* The index SetAgents builds from a configuration snapshot.
enabledAgents(list) ==
  [k \in Keys |-> IF list[k] # None /\ agentEnabled(list[k]) THEN list[k] ELSE None]

Registered(index) == {k \in Keys : index[k] # None}

-----------------------------------------------------------------------------
(* Upstreams (external) *)

\* An upstream replaces its card.
Publish(u, c) ==
  /\ clock < MaxClock
  /\ c # pub[u].card
  /\ clock' = clock + 1
  /\ pub' = [pub EXCEPT ![u] = [card |-> c, at |-> clock + 1]]
  /\ UNCHANGED <<cfgVars, brokerVars, store, reloadVars, fetchVars, reqVars>>

\* How a server evaluates the conditional headers built from prev: an entity
\* tag decides alone; without one, a modification date decides.
notModified(u, prev) ==
  /\ prev # None
  /\ IF prev.etag # None THEN ValidatorOf[u] = "etag" /\ prev.etag = <<u, pub[u].at>>
     ELSE prev.lm # 0 /\ ValidatorOf[u] = "lastmod" /\ pub[u].at <= prev.lm

answer(u, prev) ==
  [status |-> IF notModified(u, prev) THEN "304" ELSE "200",
   card |-> pub[u].card,
   etag |-> IF ValidatorOf[u] = "etag" THEN <<u, pub[u].at>> ELSE None,
   lm |-> IF ValidatorOf[u] = "lastmod" THEN pub[u].at ELSE 0,
   at |-> pub[u].at]

-----------------------------------------------------------------------------
(* Configuration loads: main.go loadConfig, under configMu *)

\* SetA2AAgents.
LoadAgents(list) ==
  /\ loader = "idle"
  /\ loads < MaxLoads
  /\ cfgAgents' = list
  /\ loader' = "ca"
  /\ loads' = loads + 1
  /\ UNCHANGED <<cfgCA, pubVars, brokerVars, store, reloadVars, fetchVars, reqVars>>

\* SetGatewayCACertPEM, then Notify starts a goroutine for the broker.
LoadCAAndNotify(pem, r) ==
  /\ loader = "ca"
  /\ rpc[r] = "idle" /\ fpc[r] = "idle"
  /\ cfgCA' = pem
  /\ loader' = "idle"
  /\ rpc' = [rpc EXCEPT ![r] = "trust"]
  /\ UNCHANGED <<cfgAgents, loads, pubVars, brokerVars, store, rnext, rprev,
                 rtodo, rpending, fetchVars, reqVars>>

-----------------------------------------------------------------------------
(* A reload: OnConfigChange and SetAgents *)

\* Mutant: the public host is not taken over.
OnConfigChangeTrustNoHost(r) ==
  /\ rpc[r] = "trust"
  /\ caCertPEM' = cfgCA
  /\ rpc' = [rpc EXCEPT ![r] = "list"]
  /\ UNCHANGED <<cfgVars, pubVars, host, agents, invalid, clients, store, rnext, rprev,
                 rtodo, rpending, fetchVars, reqVars>>

\* First critical section of OnConfigChange.
OnConfigChangeTrust(r) ==
  /\ rpc[r] = "trust"
  /\ host' = Host
  /\ caCertPEM' = cfgCA
  /\ rpc' = [rpc EXCEPT ![r] = "list"]
  /\ UNCHANGED <<cfgVars, pubVars, agents, invalid, clients, store, rnext, rprev,
                 rtodo, rpending, fetchVars, reqVars>>

\* cfg.ListA2AAgents, and the index built from it before the lock is taken.
OnConfigChangeList(r) ==
  /\ rpc[r] = "list"
  /\ rnext' = [rnext EXCEPT ![r] = enabledAgents(cfgAgents)]
  /\ rpc' = [rpc EXCEPT ![r] = "swap"]
  /\ UNCHANGED <<cfgVars, pubVars, brokerVars, store, rprev, rtodo, rpending,
                 fetchVars, reqVars>>

\* The critical section of SetAgents.
SetAgentsSwap(r) ==
  /\ rpc[r] = "swap"
  /\ rprev' = [rprev EXCEPT ![r] = agents]
  /\ agents' = rnext[r]
  /\ invalid' = [k \in Keys |-> IF rnext[r][k] = None THEN None ELSE invalid[k]]
  /\ clients' = [k \in Keys |-> IF rnext[r][k] = None THEN None ELSE clients[k]]
  /\ rpc' = [rpc EXCEPT ![r] = "evict"]
  /\ UNCHANGED <<cfgVars, pubVars, host, caCertPEM, store, rnext, rtodo, rpending,
                 fetchVars, reqVars>>

\* evictStaleCards: store.List, then one Delete per key, without b.mu.
EvictList(r) ==
  /\ rpc[r] = "evict"
  /\ rtodo' = [rtodo EXCEPT ![r] = Registered(store) \ Registered(rnext[r])]
  /\ rpc' = [rpc EXCEPT ![r] = "delete"]
  /\ UNCHANGED <<cfgVars, pubVars, brokerVars, store, rnext, rprev, rpending,
                 fetchVars, reqVars>>

EvictDelete(r, k) ==
  /\ rpc[r] = "delete"
  /\ k \in rtodo[r]
  /\ store' = [store EXCEPT ![k] = None]
  /\ rtodo' = [rtodo EXCEPT ![r] = @ \ {k}]
  /\ UNCHANGED <<cfgVars, pubVars, brokerVars, rpc, rnext, rprev, rpending,
                 fetchVars, reqVars>>

EvictDone(r) ==
  /\ rpc[r] = "delete"
  /\ rtodo[r] = {}
  /\ rtodo' = [rtodo EXCEPT ![r] = Registered(rnext[r])]
  /\ rpending' = [rpending EXCEPT ![r] = {}]
  /\ rpc' = [rpc EXCEPT ![r] = "scan"]
  /\ UNCHANGED <<cfgVars, pubVars, brokerVars, store, rnext, rprev, fetchVars, reqVars>>

\* refreshNewCards: which agents need a fetch now, one store.Get per agent.
needsFetch(r, k) ==
  store[k] # None =>
    rprev[r][k] # None /\ fetchInputsChanged(rprev[r][k], rnext[r][k])

RefreshNewScan(r, k) ==
  /\ rpc[r] = "scan"
  /\ k \in rtodo[r]
  /\ rtodo' = [rtodo EXCEPT ![r] = @ \ {k}]
  /\ rpending' = [rpending EXCEPT ![r] = IF needsFetch(r, k) THEN @ \cup {k} ELSE @]
  /\ UNCHANGED <<cfgVars, pubVars, brokerVars, store, rpc, rnext, rprev,
                 fetchVars, reqVars>>

\* refreshNewCards starts its goroutine, if anything is pending, and returns.
RefreshNewSpawn(r) ==
  /\ rpc[r] = "scan"
  /\ rtodo[r] = {}
  /\ rpc' = [rpc EXCEPT ![r] = "idle"]
  /\ rnext' = [rnext EXCEPT ![r] = EmptyMap]
  /\ rprev' = [rprev EXCEPT ![r] = EmptyMap]
  /\ rpending' = [rpending EXCEPT ![r] = {}]
  /\ fqueue' = [fqueue EXCEPT ![r] =
                  [k \in Keys |-> IF k \in rpending[r] THEN rnext[r][k] ELSE None]]
  /\ fpc' = [fpc EXCEPT ![r] = IF rpending[r] = {} THEN "idle" ELSE "next"]
  /\ UNCHANGED <<cfgVars, pubVars, brokerVars, store, rtodo, fkey, fagent, fca,
                 fhost, fprev, ftrust, fresp, reqVars>>

-----------------------------------------------------------------------------
(* Card refresh: refreshAll and refreshCard *)

\* refreshAll snapshots the index; an empty index leaves nothing to do.
RefreshAll ==
  /\ fpc[Ticker] = "idle"
  /\ Registered(agents) # {}
  /\ fqueue' = [fqueue EXCEPT ![Ticker] = agents]
  /\ fpc' = [fpc EXCEPT ![Ticker] = "next"]
  /\ UNCHANGED <<cfgVars, pubVars, brokerVars, store, reloadVars, fkey, fagent,
                 fca, fhost, fprev, ftrust, fresp, reqVars>>

\* refreshCard begins: the gateway trust inputs are read under b.mu.
FetchBegin(p, k) ==
  /\ fpc[p] = "next"
  /\ fqueue[p][k] # None
  /\ fkey' = [fkey EXCEPT ![p] = k]
  /\ fagent' = [fagent EXCEPT ![p] = fqueue[p][k]]
  /\ fqueue' = [fqueue EXCEPT ![p][k] = None]
  /\ fca' = [fca EXCEPT ![p] = caCertPEM]
  /\ fhost' = [fhost EXCEPT ![p] = host]
  /\ fpc' = [fpc EXCEPT ![p] = "prev"]
  /\ UNCHANGED <<cfgVars, pubVars, brokerVars, store, reloadVars, fprev, ftrust,
                 fresp, reqVars>>

\* store.Get: the entry whose validators the conditional GET carries.
FetchPrev(p) ==
  /\ fpc[p] = "prev"
  /\ fprev' = [fprev EXCEPT ![p] = store[fkey[p]]]
  /\ fpc' = [fpc EXCEPT ![p] = "client"]
  /\ UNCHANGED <<cfgVars, pubVars, brokerVars, store, reloadVars, fqueue, fkey,
                 fagent, fca, fhost, ftrust, fresp, reqVars>>

\* The fetch is over: forget its locals, go on with the rest of the queue.
FetchEnd(p) ==
  /\ fpc' = [fpc EXCEPT ![p] = IF Registered(fqueue[p]) = {} THEN "idle" ELSE "next"]
  /\ fkey' = [fkey EXCEPT ![p] = None]
  /\ fagent' = [fagent EXCEPT ![p] = None]
  /\ fca' = [fca EXCEPT ![p] = NoPEM]
  /\ fhost' = [fhost EXCEPT ![p] = ""]
  /\ fprev' = [fprev EXCEPT ![p] = None]
  /\ ftrust' = [ftrust EXCEPT ![p] = None]
  /\ fresp' = [fresp EXCEPT ![p] = None]
  /\ UNCHANGED fqueue

\* clientFor: the shared client without custom trust, else the cached client
\* or a new one, built from the gateway bundle of this moment.
FetchClient(p) ==
  LET k == fkey[p]
      trust == [gw |-> caCertPEM, agent |-> fagent[p].ca]
  IN /\ fpc[p] = "client"
     /\ trust.gw \notin BadPEMs /\ trust.agent \notin BadPEMs
     /\ clients' = IF trust.gw = NoPEM /\ trust.agent = NoPEM
                   THEN clients ELSE [clients EXCEPT ![k] = trust]
     /\ ftrust' = [ftrust EXCEPT ![p] = trust]
     /\ fpc' = [fpc EXCEPT ![p] = "wire"]
     /\ UNCHANGED <<cfgVars, pubVars, agents, invalid, host, caCertPEM, store,
                    reloadVars, fqueue, fkey, fagent, fca, fhost, fprev, fresp, reqVars>>

FetchClientFails(p) ==
  /\ fpc[p] = "client"
  /\ caCertPEM \in BadPEMs \/ fagent[p].ca \in BadPEMs
  /\ FetchEnd(p)
  /\ UNCHANGED <<cfgVars, pubVars, brokerVars, store, reloadVars, reqVars>>

\* The upstream answers with the card it publishes at this moment.
FetchAnswer(p) ==
  /\ fpc[p] = "wire"
  /\ fresp' = [fresp EXCEPT ![p] = answer(fagent[p].url, fprev[p])]
  /\ fpc' = [fpc EXCEPT ![p] = "commit"]
  /\ UNCHANGED <<cfgVars, pubVars, brokerVars, store, reloadVars, fqueue, fkey,
                 fagent, fca, fhost, fprev, ftrust, reqVars>>

\* A failed request or read, an oversized body, any other status: stale-on-error.
FetchFails(p) ==
  /\ fpc[p] = "wire"
  /\ FetchEnd(p)
  /\ UNCHANGED <<cfgVars, pubVars, brokerVars, store, reloadVars, reqVars>>

\* Mutant: the rejection is not cleared.
storeKeepsRejection(k, a, gwCA, h, entry) ==
  /\ UNCHANGED invalid
  /\ store' = IF stillCurrent(k, a, gwCA, h) THEN [store EXCEPT ![k] = entry] ELSE store

storeIfCurrent(k, a, gwCA, h, entry) ==
  IF stillCurrent(k, a, gwCA, h)
  THEN /\ invalid' = [invalid EXCEPT ![k] = None]
       /\ store' = [store EXCEPT ![k] = entry]
  ELSE UNCHANGED <<invalid, store>>

\* Mutant: the previous card stays.
failKeepsCard(k, a, gwCA, h, version) ==
  /\ invalid' = IF stillCurrent(k, a, gwCA, h) THEN [invalid EXCEPT ![k] = version] ELSE invalid
  /\ UNCHANGED store

failCardValidation(k, a, gwCA, h, version) ==
  IF stillCurrent(k, a, gwCA, h)
  THEN /\ invalid' = [invalid EXCEPT ![k] = version]
       /\ store' = [store EXCEPT ![k] = None]
  ELSE UNCHANGED <<invalid, store>>

\* The switch of refreshCard on the response, under b.mu for the commit.
commitResponse(p, k, a, prev, resp) ==
  CASE resp.status = "304" ->
         storeIfCurrent(k, a, fca[p], fhost[p], prev)
    [] resp.status = "200" /\ prev # None /\ prev.card = resp.card ->
         storeIfCurrent(k, a, fca[p], fhost[p],
           [card |-> prev.card, etag |-> resp.etag, lm |-> resp.lm, src |-> a.url])
    [] OTHER ->
         IF validateCard(resp.card, fhost[p], k)
         THEN storeIfCurrent(k, a, fca[p], fhost[p],
                [card |-> resp.card, etag |-> resp.etag, lm |-> resp.lm, src |-> a.url])
         ELSE failCardValidation(k, a, fca[p], fhost[p],
                [src |-> a.url, at |-> resp.at])

FetchCommit(p) ==
  /\ fpc[p] = "commit"
  /\ commitResponse(p, fkey[p], fagent[p], fprev[p], fresp[p])
  /\ FetchEnd(p)
  /\ UNCHANGED <<cfgVars, pubVars, agents, host, caCertPEM, clients, reloadVars, reqVars>>

-----------------------------------------------------------------------------
(* Serving: ServeAgentCard reads index, rejections and store in three steps; *)
(* a request that is refused (404, 503) ends there and leaves no trace.      *)

RequestCard(q, k) ==
  /\ qpc[q] = "idle"
  /\ agents[k] # None
  /\ qkey' = [qkey EXCEPT ![q] = k]
  /\ qpc' = [qpc EXCEPT ![q] = "rejected"]
  /\ UNCHANGED <<cfgVars, pubVars, brokerVars, store, reloadVars, fetchVars, qcard>>

RequestEnds(q) ==
  /\ qpc' = [qpc EXCEPT ![q] = "idle"]
  /\ qkey' = [qkey EXCEPT ![q] = None]
  /\ qcard' = [qcard EXCEPT ![q] = None]

CheckRejected(q) ==
  /\ qpc[q] = "rejected"
  /\ \/ invalid[qkey[q]] # None /\ RequestEnds(q)
     \/ invalid[qkey[q]] = None /\ qpc' = [qpc EXCEPT ![q] = "get"] /\ UNCHANGED <<qkey, qcard>>
  /\ UNCHANGED <<cfgVars, pubVars, brokerVars, store, reloadVars, fetchVars>>

GetCard(q) ==
  /\ qpc[q] = "get"
  /\ \/ store[qkey[q]] = None /\ RequestEnds(q)
     \/ /\ store[qkey[q]] # None
        /\ qpc' = [qpc EXCEPT ![q] = "200"]
        /\ qcard' = [qcard EXCEPT ![q] = store[qkey[q]].card]
        /\ UNCHANGED qkey
  /\ UNCHANGED <<cfgVars, pubVars, brokerVars, store, reloadVars, fetchVars>>

RequestDone(q) ==
  /\ qpc[q] = "200"
  /\ RequestEnds(q)
  /\ UNCHANGED <<cfgVars, pubVars, brokerVars, store, reloadVars, fetchVars>>

\* ServeAPICatalog lists, under b.mu, the agents with a validated, cached card.
Catalog == {k \in Keys : agents[k] # None /\ invalid[k] = None /\ store[k] # None}

-----------------------------------------------------------------------------
Init ==
  /\ cfgAgents = EmptyMap /\ cfgCA = NoPEM /\ loader = "idle" /\ loads = 0
  /\ pub \in [Urls -> [card : Cards, at : {1}]] /\ clock = 1
  /\ agents = EmptyMap /\ invalid = EmptyMap /\ clients = EmptyMap
  /\ host = "" /\ caCertPEM = NoPEM
  /\ store = EmptyMap
  /\ rpc = [r \in Reloads |-> "idle"]
  /\ rnext = [r \in Reloads |-> EmptyMap] /\ rprev = [r \in Reloads |-> EmptyMap]
  /\ rtodo = [r \in Reloads |-> {}] /\ rpending = [r \in Reloads |-> {}]
  /\ fpc = [p \in Fetchers |-> "idle"]
  /\ fqueue = [p \in Fetchers |-> EmptyMap]
  /\ fkey = [p \in Fetchers |-> None] /\ fagent = [p \in Fetchers |-> None]
  /\ fca = [p \in Fetchers |-> NoPEM] /\ fhost = [p \in Fetchers |-> ""]
  /\ fprev = [p \in Fetchers |-> None] /\ ftrust = [p \in Fetchers |-> None]
  /\ fresp = [p \in Fetchers |-> None]
  /\ qpc = [q \in Requests |-> "idle"]
  /\ qkey = [q \in Requests |-> None] /\ qcard = [q \in Requests |-> None]

ConfigStep ==
  \/ \E list \in [Keys -> Agent \cup {None}] : LoadAgents(list)
  \/ \E pem \in GatewayCAs, r \in Reloads : LoadCAAndNotify(pem, r)

ReloadStep(r) ==
  \/ OnConfigChangeTrust(r) \/ OnConfigChangeList(r) \/ SetAgentsSwap(r)
  \/ EvictList(r) \/ (\E k \in Keys : EvictDelete(r, k)) \/ EvictDone(r)
  \/ (\E k \in Keys : RefreshNewScan(r, k)) \/ RefreshNewSpawn(r)

FetchStep(p) ==
  \/ (\E k \in Keys : FetchBegin(p, k)) \/ FetchPrev(p)
  \/ FetchClient(p) \/ FetchClientFails(p)
  \/ FetchAnswer(p) \/ FetchFails(p) \/ FetchCommit(p)

RequestStep(q) ==
  \/ (\E k \in Keys : RequestCard(q, k))
  \/ CheckRejected(q) \/ GetCard(q) \/ RequestDone(q)

Next ==
  \/ ConfigStep
  \/ \E u \in Urls, c \in Cards : Publish(u, c)
  \/ \E r \in Reloads : ReloadStep(r)
  \/ RefreshAll
  \/ \E p \in Fetchers : FetchStep(p)
  \/ \E q \in Requests : RequestStep(q)

Spec == Init /\ [][Next]_vars

-----------------------------------------------------------------------------
(* Fairness.  Goroutines that can run do run, the ticker keeps ticking, and  *)
(* an upstream that is asked for a card again and again does answer: the     *)
(* request may fail (FetchFails), but not for ever.                          *)
Fairness ==
  /\ WF_vars(\E pem \in GatewayCAs, r \in Reloads : LoadCAAndNotify(pem, r))
  /\ \A r \in Reloads : WF_vars(ReloadStep(r))
  /\ WF_vars(RefreshAll)
  /\ \A p \in Fetchers : WF_vars(FetchStep(p))
  /\ \A k \in Keys : SF_vars(fkey[Ticker] = k /\ FetchAnswer(Ticker))

FairSpec == Spec /\ Fairness

-----------------------------------------------------------------------------
(* Properties *)

AgentIndex == [Keys -> Agent \cup {None}]
Trust == [gw : GatewayCAs \cup {NoPEM}, agent : STRING]

TypeConfig ==
  /\ cfgAgents \in AgentIndex /\ cfgCA \in GatewayCAs \cup {NoPEM}
  /\ loader \in {"idle", "ca"} /\ loads \in 0 .. MaxLoads
  /\ pub \in [Urls -> [card : Cards, at : Stamp]] /\ clock \in Stamp
TypeBroker ==
  /\ agents \in AgentIndex /\ invalid \in [Keys -> Version \cup {None}]
  /\ host \in {"", Host} /\ caCertPEM \in GatewayCAs \cup {NoPEM}
  /\ clients \in [Keys -> Trust \cup {None}]
  /\ store \in [Keys -> CardEntry \cup {None}]
TypeReload ==
  /\ rpc \in [Reloads -> {"idle", "trust", "list", "swap", "evict", "delete", "scan"}]
  /\ rnext \in [Reloads -> AgentIndex] /\ rprev \in [Reloads -> AgentIndex]
  /\ rtodo \in [Reloads -> SUBSET Keys] /\ rpending \in [Reloads -> SUBSET Keys]
TypeFetch ==
  /\ fpc \in [Fetchers -> {"idle", "next", "prev", "client", "wire", "commit"}]
  /\ fqueue \in [Fetchers -> AgentIndex]
  /\ fkey \in [Fetchers -> Keys \cup {None}]
  /\ fagent \in [Fetchers -> Agent \cup {None}]
  /\ fca \in [Fetchers -> GatewayCAs \cup {NoPEM}] /\ fhost \in [Fetchers -> {"", Host}]
  /\ fprev \in [Fetchers -> CardEntry \cup {None}]
  /\ ftrust \in [Fetchers -> Trust \cup {None}]
  /\ fresp \in [Fetchers -> Response \cup {None}]
TypeRequest ==
  /\ qpc \in [Requests -> {"idle", "rejected", "get", "200"}]
  /\ qkey \in [Requests -> Keys \cup {None}] /\ qcard \in [Requests -> Cards \cup {None}]

\* The locals of a fetch and of a request are set while it is under way: the
\* part of type correctness that the steps of refreshCard and ServeAgentCard
\* rely on.
FetchLocals ==
  \A p \in Fetchers :
    /\ fpc[p] \in {"prev", "client", "wire", "commit"} => fkey[p] \in Keys /\ fagent[p] \in Agent
    /\ fpc[p] = "commit" =>
         fresp[p] \in Response /\ (fresp[p].status = "304" => fprev[p] \in CardEntry)
RequestLocals == \A q \in Requests : qpc[q] # "idle" => qkey[q] \in Keys

\* The index, the maps, the store and the locals of every goroutine have their types.
TypeOK ==
  /\ TypeConfig /\ TypeBroker /\ TypeReload /\ TypeFetch /\ TypeRequest
  /\ FetchLocals /\ RequestLocals

\* An agent is never both rejected and cached: storeIfCurrent and
\* failCardValidation keep the two maps apart whatever order concurrent
\* fetches, reloads and evictions commit in.
RejectedNotCached == \A k \in Keys : invalid[k] = None \/ store[k] = None

\* Validation failures are remembered for registered agents only: SetAgents
\* drops the rest in the step that swaps the index.
RejectedRegistered == \A k \in Keys : invalid[k] # None => agents[k] # None

\* "The card store tracks the live agent set": a cached card belongs to a
\* registered agent, or a reload that dropped the agent has still to evict it.
EvictionPending(k) ==
  \E r \in Reloads : \/ rpc[r] = "evict" /\ rnext[r][k] = None
                     \/ rpc[r] = "delete" /\ k \in rtodo[r]
StoreTracksAgents ==
  \A k \in Keys : store[k] # None => agents[k] # None \/ EvictionPending(k)

\* Every cached card, and every card handed to a client, conforms to the path
\* of its key and to the gateway's host: no interleaving of the reload that
\* publishes the host and the fetches lets one in that was validated without it.
StoredConform == \A k \in Keys : store[k] # None => validateCard(store[k].card, Host, k)
ServedConform == \A q \in Requests : qpc[q] = "200" => validateCard(qcard[q], Host, qkey[q])

\* A step that puts a card into the store puts there a card downloaded from
\* the URL the agent is registered with at that moment: a fetch that a reload
\* overtook does not commit, and a 304 to the entity tag of a cached card keeps
\* no card of another upstream.  That is so where upstreams identify versions by
\* entity tags of their own; with Last-Modified alone, or with tags that two
\* upstreams share, a 304 does keep the other's card (refreshCard).
CommitsRegistered ==
  \A k \in Keys : store'[k] # None /\ store'[k] # store[k] =>
    agents[k] # None /\ store'[k].src = agents[k].url
CommitFromRegisteredURL == [][CommitsRegistered]_vars

\* A registered agent whose upstream keeps publishing a conforming card ends up
\* in the catalog with that card, whatever happened before.
ConformingListed ==
  \A k \in Keys, a \in Agent :
    <>[](agents[k] = a /\ caCertPEM \notin BadPEMs /\ a.ca \notin BadPEMs
         /\ validateCard(pub[a.url].card, Host, k))
      => <>[](k \in Catalog /\ store[k].card = pub[a.url].card)

\* One whose upstream keeps publishing a non-conforming card ends up out of the
\* catalog, with no older card served in its place.
NonConformingExcluded ==
  \A k \in Keys, a \in Agent :
    <>[](agents[k] = a /\ caCertPEM \notin BadPEMs /\ a.ca \notin BadPEMs
         /\ ~validateCard(pub[a.url].card, Host, k))
      => <>[](k \notin Catalog /\ store[k] = None)

\* When the loads and the reloads have come to rest, the broker's index and
\* gateway trust are those of the configuration.
ReloadsSettled ==
  loader = "idle" /\ (\A r \in Reloads : rpc[r] = "idle") =>
    agents = enabledAgents(cfgAgents) /\ (loads > 0 => caCertPEM = cfgCA)

=============================================================================
