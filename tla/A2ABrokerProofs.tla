-------------------------- MODULE A2ABrokerProofs --------------------------
(***************************************************************************)
(* Safety of the A2A broker for every set of keys, agents, reloads,        *)
(* requests, cards and bounds.  In order: type correctness; frame lemmas   *)
(* (which steps write the broker's maps, move a fetch, move a reload); the *)
(* inductive invariant IInv and its preservation, one lemma per conjunct;  *)
(* and, for upstreams that validate by entity tag, where committed cards   *)
(* come from.                                                              *)
(***************************************************************************)
EXTENDS A2ABroker, TLAPS

\* The bounds of the model as arithmetic facts.
LEMMA Bounds == MaxLoads \in Nat /\ MaxClock \in Nat /\ MaxClock >= 1
<1>1. MaxLoads \in Nat /\ MaxClock \in Nat \ {0}
  BY A2AAssumption
<1> QED BY <1>1

\* The broker starts well typed: NewBroker's empty maps.
LEMMA TypeInit == Init => TypeOK
<1> SUFFICES ASSUME Init PROVE TypeOK
  OBVIOUS
<1>0. EmptyMap \in AgentIndex
  BY DEF EmptyMap, AgentIndex
<1>1. TypeConfig
  <2>1. 1 \in Stamp /\ 0 \in 0 .. MaxLoads
    BY Bounds DEF Stamp
  <2>2. pub \in [Urls -> [card : Cards, at : Stamp]]
    <3>1. [card : Cards, at : {1}] \subseteq [card : Cards, at : Stamp]
      BY <2>1
    <3> QED BY <3>1 DEF Init
  <2> QED BY <1>0, <2>1, <2>2 DEF Init, TypeConfig, NoPEM
<1>2. TypeBroker
  BY <1>0, A2AAssumption DEF Init, TypeBroker, NoPEM, EmptyMap
<1>3. TypeReload
  BY <1>0 DEF Init, TypeReload
<1>4. TypeFetch
  BY <1>0 DEF Init, TypeFetch, NoPEM
<1>5. TypeRequest
  BY DEF Init, TypeRequest
<1>6. FetchLocals
  BY DEF Init, FetchLocals
<1>7. RequestLocals
  BY DEF Init, RequestLocals
<1> QED
  BY <1>1, <1>2, <1>3, <1>4, <1>5, <1>6, <1>7 DEF TypeOK

\* loadConfig and the upstreams keep the types.
LEMMA TypeConfigStep ==
  ASSUME TypeOK, ConfigStep
  PROVE TypeOK'
<1> USE DEF TypeOK
<1>1. ASSUME NEW list \in [Keys -> Agent \cup {None}], LoadAgents(list) PROVE TypeOK'
  <2>1. TypeConfig'
    <3>1. loads + 1 \in 0 .. MaxLoads
      BY <1>1, Bounds DEF LoadAgents, TypeConfig
    <3> QED BY <1>1, <3>1 DEF LoadAgents, TypeConfig, AgentIndex, pubVars
  <2> QED
    BY <1>1, <2>1 DEF LoadAgents, TypeBroker, TypeReload, TypeFetch, TypeRequest,
       FetchLocals, RequestLocals, brokerVars, reloadVars, fetchVars, reqVars
<1>2. ASSUME NEW pem \in GatewayCAs, NEW r \in Reloads, LoadCAAndNotify(pem, r) PROVE TypeOK'
  BY <1>2, A2AAssumption DEF LoadCAAndNotify, NoPEM, TypeConfig, TypeBroker, TypeReload,
     TypeFetch, TypeRequest, FetchLocals, RequestLocals, cfgVars, pubVars, brokerVars,
     reloadVars, fetchVars, reqVars
<1> QED
  BY <1>1, <1>2 DEF ConfigStep

\* OnConfigChange, SetAgents, evictStaleCards and refreshNewCards keep them.
LEMMA TypeReloadStep ==
  ASSUME TypeOK, NEW r \in Reloads, ReloadStep(r)
  PROVE TypeOK'
<1> USE DEF TypeOK
<1>1. ASSUME OnConfigChangeTrust(r) PROVE TypeOK'
  BY <1>1, A2AAssumption DEF OnConfigChangeTrust, NoPEM, TypeConfig, TypeBroker,
     TypeReload, TypeFetch, TypeRequest, FetchLocals, RequestLocals, cfgVars, pubVars,
     brokerVars, reloadVars, fetchVars, reqVars
<1>2. ASSUME OnConfigChangeList(r) PROVE TypeOK'
  BY <1>2, A2AAssumption DEF OnConfigChangeList, enabledAgents, AgentIndex, TypeConfig,
     TypeBroker, TypeReload, TypeFetch, TypeRequest, FetchLocals, RequestLocals,
     cfgVars, pubVars, brokerVars, reloadVars, fetchVars, reqVars
<1>3. ASSUME SetAgentsSwap(r) PROVE TypeOK'
  BY <1>3, A2AAssumption DEF SetAgentsSwap, AgentIndex, TypeConfig, TypeBroker,
     TypeReload, TypeFetch, TypeRequest, FetchLocals, RequestLocals, cfgVars, pubVars,
     brokerVars, reloadVars, fetchVars, reqVars
<1>4. ASSUME EvictList(r) PROVE TypeOK'
  BY <1>4, A2AAssumption DEF EvictList, Registered, TypeConfig, TypeBroker, TypeReload,
     TypeFetch, TypeRequest, FetchLocals, RequestLocals, cfgVars, pubVars, brokerVars,
     reloadVars, fetchVars, reqVars
<1>5. ASSUME NEW k \in Keys, EvictDelete(r, k) PROVE TypeOK'
  BY <1>5, A2AAssumption DEF EvictDelete, TypeConfig, TypeBroker, TypeReload, TypeFetch,
     TypeRequest, FetchLocals, RequestLocals, cfgVars, pubVars, brokerVars, reloadVars,
     fetchVars, reqVars
<1>6. ASSUME EvictDone(r) PROVE TypeOK'
  BY <1>6, A2AAssumption DEF EvictDone, Registered, TypeConfig, TypeBroker, TypeReload,
     TypeFetch, TypeRequest, FetchLocals, RequestLocals, cfgVars, pubVars, brokerVars,
     reloadVars, fetchVars, reqVars
<1>7. ASSUME NEW k \in Keys, RefreshNewScan(r, k) PROVE TypeOK'
  <2>1. TypeReload' BY <1>7 DEF RefreshNewScan, TypeReload
  <2> QED
    BY <1>7, <2>1 DEF RefreshNewScan, TypeConfig, TypeBroker, TypeFetch, TypeRequest,
       FetchLocals, RequestLocals, cfgVars, pubVars, brokerVars, fetchVars, reqVars
<1>8. ASSUME RefreshNewSpawn(r) PROVE TypeOK'
  <2>1. r \in Fetchers
    BY DEF Fetchers
  <2>2. [k \in Keys |-> IF k \in rpending[r] THEN rnext[r][k] ELSE None] \in AgentIndex
    BY DEF TypeReload, AgentIndex
  <2>3. TypeReload'
    BY <1>8 DEF RefreshNewSpawn, EmptyMap, AgentIndex, TypeReload
  <2>4. TypeFetch'
    BY <1>8, <2>1, <2>2 DEF RefreshNewSpawn, TypeFetch
  <2>5. FetchLocals'
    BY <1>8, <2>1 DEF RefreshNewSpawn, TypeFetch, FetchLocals
  <2> QED
    BY <1>8, <2>3, <2>4, <2>5 DEF RefreshNewSpawn, TypeConfig, TypeBroker, TypeRequest,
       RequestLocals, cfgVars, pubVars, brokerVars, reqVars
<1> QED
  BY <1>1, <1>2, <1>3, <1>4, <1>5, <1>6, <1>7, <1>8 DEF ReloadStep

\* What an upstream answers is a response; a 304 answers a conditional request.
LEMMA AnswerType ==
  ASSUME pub \in [Urls -> [card : Cards, at : Stamp]], NEW u \in Urls, NEW prev
  PROVE /\ answer(u, prev) \in Response
        /\ answer(u, prev).status = "304" => prev # None
<1>1. pub[u].card \in Cards /\ pub[u].at \in Stamp
  OBVIOUS
<1>2. pub[u].at \in 0 .. MaxClock /\ 0 \in 0 .. MaxClock
  BY <1>1, Bounds DEF Stamp
<1> QED
  BY <1>1, <1>2 DEF answer, notModified, Response, ETag

\* The outcome of a commit: nothing, a card stored and the rejection cleared, or
\* a rejection recorded and the card dropped, the last two for a registered agent
\* whose fetch inputs and gateway trust are those the fetch began with.
Stores(p, entry) ==
  /\ stillCurrent(fkey[p], fagent[p], fca[p], fhost[p])
  /\ invalid' = [invalid EXCEPT ![fkey[p]] = None]
  /\ store' = [store EXCEPT ![fkey[p]] = entry]
Rejects(p) ==
  /\ stillCurrent(fkey[p], fagent[p], fca[p], fhost[p])
  /\ invalid' = [invalid EXCEPT ![fkey[p]] = [src |-> fagent[p].url, at |-> fresp[p].at]]
  /\ store' = [store EXCEPT ![fkey[p]] = None]
\* The entry a commit may store: the previous one on a 304, else one whose card
\* and source are those of the response, validated or equal to the previous card.
Committed(p, entry) ==
  \/ fresp[p].status = "304" /\ entry = fprev[p]
  \/ /\ entry = [card |-> fresp[p].card, etag |-> fresp[p].etag,
                 lm |-> fresp[p].lm, src |-> fagent[p].url]
     /\ \/ validateCard(fresp[p].card, fhost[p], fkey[p])
        \/ fprev[p] # None /\ fprev[p].card = fresp[p].card

\* The switch of refreshCard has no other outcome than these three.
LEMMA CommitOutcome ==
  ASSUME TypeOK, NEW p \in Fetchers, FetchCommit(p)
  PROVE /\ fkey[p] \in Keys /\ fagent[p] \in Agent /\ fresp[p] \in Response
        /\ \/ UNCHANGED <<invalid, store>>
           \/ Rejects(p)
           \/ \E entry \in CardEntry : Committed(p, entry) /\ Stores(p, entry)
<1>1. fkey[p] \in Keys /\ fagent[p] \in Agent /\ fresp[p] \in Response
  BY DEF TypeOK, FetchLocals, FetchCommit
<1>2. CASE fresp[p].status = "304"
  <2>1. fprev[p] \in CardEntry /\ Committed(p, fprev[p])
    BY <1>2 DEF TypeOK, FetchLocals, FetchCommit, Committed
  <2>2. UNCHANGED <<invalid, store>> \/ Stores(p, fprev[p])
    BY <1>2 DEF FetchCommit, commitResponse, storeIfCurrent, Stores
  <2> QED BY <1>1, <2>1, <2>2
<1>3. CASE fresp[p].status # "304"
  <2> DEFINE new == [card |-> fresp[p].card, etag |-> fresp[p].etag,
                     lm |-> fresp[p].lm, src |-> fagent[p].url]
  <2>1. fresp[p].status = "200" /\ new \in CardEntry
    BY <1>1, <1>3, A2AAssumption DEF Response, CardEntry
  <2>2. CASE fprev[p] # None /\ fprev[p].card = fresp[p].card
    <3>1. fprev[p] \in CardEntry
      BY <2>2 DEF TypeOK, TypeFetch
    <3>2. [card |-> fprev[p].card, etag |-> fresp[p].etag, lm |-> fresp[p].lm,
           src |-> fagent[p].url] = new
      BY <2>2
    <3>3. UNCHANGED <<invalid, store>> \/ Stores(p, new)
      BY <2>1, <2>2, <3>2 DEF FetchCommit, commitResponse, storeIfCurrent, Stores
    <3>4. Committed(p, new)
      BY <2>2 DEF Committed
    <3> QED BY <1>1, <2>1, <3>3, <3>4
  <2>3. CASE ~(fprev[p] # None /\ fprev[p].card = fresp[p].card)
    <3>1. CASE validateCard(fresp[p].card, fhost[p], fkey[p])
      <4>1. UNCHANGED <<invalid, store>> \/ Stores(p, new)
        BY <1>3, <2>1, <2>3, <3>1 DEF FetchCommit, commitResponse, storeIfCurrent, Stores
      <4>2. Committed(p, new)
        BY <3>1 DEF Committed
      <4> QED BY <1>1, <2>1, <4>1, <4>2
    <3>2. CASE ~validateCard(fresp[p].card, fhost[p], fkey[p])
      BY <1>1, <1>3, <2>1, <2>3, <3>2
         DEF FetchCommit, commitResponse, failCardValidation, Rejects
    <3> QED BY <3>1, <3>2
  <2> QED BY <2>2, <2>3
<1> QED BY <1>2, <1>3

\* A commit keeps the types of Broker.invalid and of the store.
LEMMA CommitType ==
  ASSUME TypeOK, NEW p \in Fetchers, FetchCommit(p)
  PROVE /\ store' \in [Keys -> CardEntry \cup {None}]
        /\ invalid' \in [Keys -> Version \cup {None}]
<1>1. fkey[p] \in Keys /\ [src |-> fagent[p].url, at |-> fresp[p].at] \in Version
  BY CommitOutcome, A2AAssumption DEF Version, Response
<1>2. CASE UNCHANGED <<invalid, store>>
  BY <1>2 DEF TypeOK, TypeBroker
<1>3. CASE Rejects(p)
  BY <1>1, <1>3 DEF TypeOK, TypeBroker, Rejects
<1>4. CASE \E entry \in CardEntry : Committed(p, entry) /\ Stores(p, entry)
  BY <1>1, <1>4 DEF TypeOK, TypeBroker, Stores
<1> QED
  BY <1>2, <1>3, <1>4, CommitOutcome

\* refreshAll and refreshCard keep the types.
LEMMA TypeFetchStep ==
  ASSUME TypeOK, NEW p \in Fetchers, FetchStep(p)
  PROVE TypeOK'
<1> USE DEF TypeOK
<1>1. ASSUME NEW k \in Keys, FetchBegin(p, k) PROVE TypeOK'
  <2>1. fqueue[p][k] \in Agent
    <3>1. fqueue[p] \in AgentIndex
      BY DEF TypeFetch
    <3> QED BY <1>1, <3>1 DEF FetchBegin, AgentIndex
  <2>2. [fqueue EXCEPT ![p][k] = None] \in [Fetchers -> AgentIndex]
    BY DEF TypeFetch, AgentIndex
  <2>3. TypeFetch'
    BY <1>1, <2>1, <2>2 DEF FetchBegin, TypeFetch, TypeBroker
  <2>4. FetchLocals'
    BY <1>1, <2>1 DEF FetchBegin, TypeFetch, FetchLocals
  <2> QED
    BY <1>1, <2>3, <2>4 DEF FetchBegin, TypeConfig, TypeBroker, TypeReload, TypeRequest,
       RequestLocals, cfgVars, pubVars, brokerVars, reloadVars, reqVars
<1>2. ASSUME FetchPrev(p) PROVE TypeOK'
  BY <1>2, A2AAssumption DEF FetchPrev, TypeConfig, TypeBroker, TypeReload, TypeFetch,
     TypeRequest, FetchLocals, RequestLocals, cfgVars, pubVars, brokerVars, reloadVars,
     fetchVars, reqVars
<1>3. ASSUME FetchClient(p) PROVE TypeOK'
  <2> DEFINE trust == [gw |-> caCertPEM, agent |-> fagent[p].ca]
  <2>1. fkey[p] \in Keys /\ fagent[p] \in Agent
    BY <1>3 DEF FetchClient, FetchLocals
  <2>2. trust \in Trust
    <3>1. fagent[p].ca \in STRING
      BY <2>1, A2AAssumption
    <3> QED BY <3>1 DEF Trust, TypeBroker
  <2>3. TypeBroker'
    <3>1. clients' \in {clients, [clients EXCEPT ![fkey[p]] = trust]}
      BY <1>3 DEF FetchClient
    <3> QED BY <1>3, <2>1, <2>2, <3>1 DEF FetchClient, TypeBroker
  <2>4. TypeFetch'
    BY <1>3, <2>2 DEF FetchClient, TypeFetch
  <2>5. FetchLocals'
    BY <1>3, <2>1 DEF FetchClient, TypeFetch, FetchLocals
  <2> QED
    BY <1>3, <2>3, <2>4, <2>5 DEF FetchClient, TypeConfig, TypeReload, TypeRequest,
       RequestLocals, cfgVars, pubVars, reloadVars, reqVars
<1>4. ASSUME FetchClientFails(p) PROVE TypeOK'
  BY <1>4, A2AAssumption DEF FetchClientFails, FetchEnd, NoPEM, TypeConfig, TypeBroker,
     TypeReload, TypeFetch, TypeRequest, FetchLocals, RequestLocals, cfgVars, pubVars,
     brokerVars, reloadVars, fetchVars, reqVars
<1>5. ASSUME FetchAnswer(p) PROVE TypeOK'
  <2> DEFINE resp == answer(fagent[p].url, fprev[p])
  <2>1. fkey[p] \in Keys /\ fagent[p] \in Agent /\ fagent[p].url \in Urls
    BY <1>5, A2AAssumption DEF FetchAnswer, FetchLocals
  <2>2. resp \in Response /\ (resp.status = "304" => fprev[p] # None)
    BY <2>1, AnswerType DEF TypeConfig
  <2>3. TypeFetch'
    BY <1>5, <2>2 DEF FetchAnswer, TypeFetch
  <2>4. FetchLocals'
    BY <1>5, <2>1, <2>2 DEF FetchAnswer, TypeFetch, FetchLocals
  <2> QED
    BY <1>5, <2>3, <2>4 DEF FetchAnswer, TypeConfig, TypeBroker, TypeReload, TypeRequest,
       RequestLocals, cfgVars, pubVars, brokerVars, reloadVars, reqVars
<1>6. ASSUME FetchFails(p) PROVE TypeOK'
  BY <1>6, A2AAssumption DEF FetchFails, FetchEnd, NoPEM, TypeConfig, TypeBroker,
     TypeReload, TypeFetch, TypeRequest, FetchLocals, RequestLocals, cfgVars, pubVars,
     brokerVars, reloadVars, fetchVars, reqVars
<1>7. ASSUME FetchCommit(p) PROVE TypeOK'
  <2>1. /\ store' \in [Keys -> CardEntry \cup {None}]
        /\ invalid' \in [Keys -> Version \cup {None}]
    BY <1>7, CommitType
  <2>2. TypeBroker'
    BY <1>7, <2>1 DEF FetchCommit, TypeBroker
  <2>3. TypeFetch' /\ FetchLocals'
    BY <1>7 DEF FetchCommit, FetchEnd, NoPEM, TypeFetch, FetchLocals
  <2> QED
    BY <1>7, <2>2, <2>3 DEF FetchCommit, TypeConfig, TypeReload, TypeRequest,
       RequestLocals, cfgVars, pubVars, reloadVars, reqVars
<1> QED
  BY <1>1, <1>2, <1>3, <1>4, <1>5, <1>6, <1>7 DEF FetchStep

\* ServeAgentCard keeps the types.
LEMMA TypeRequestStep ==
  ASSUME TypeOK, NEW q \in Requests, RequestStep(q)
  PROVE TypeOK'
<1> USE DEF TypeOK
<1>1. ASSUME NEW k \in Keys, RequestCard(q, k) PROVE TypeOK'
  BY <1>1, A2AAssumption DEF RequestCard, TypeConfig, TypeBroker, TypeReload, TypeFetch,
     TypeRequest, FetchLocals, RequestLocals, cfgVars, pubVars, brokerVars, reloadVars,
     fetchVars, reqVars
<1>2. ASSUME CheckRejected(q) PROVE TypeOK'
  <2>1. TypeRequest' /\ RequestLocals'
    BY <1>2 DEF CheckRejected, RequestEnds, TypeRequest, RequestLocals
  <2> QED
    BY <1>2, <2>1 DEF CheckRejected, TypeConfig, TypeBroker, TypeReload, TypeFetch,
       FetchLocals, cfgVars, pubVars, brokerVars, reloadVars, fetchVars
<1>3. ASSUME GetCard(q) PROVE TypeOK'
  <2>1. qkey[q] \in Keys
    BY <1>3 DEF GetCard, RequestLocals
  <2>2. store[qkey[q]] # None => store[qkey[q]].card \in Cards
    BY <2>1 DEF TypeBroker, CardEntry
  <2>3. TypeRequest' /\ RequestLocals'
    BY <1>3, <2>1, <2>2 DEF GetCard, RequestEnds, TypeRequest, RequestLocals
  <2> QED
    BY <1>3, <2>3 DEF GetCard, RequestEnds, TypeConfig, TypeBroker, TypeReload, TypeFetch, FetchLocals,
       cfgVars, pubVars, brokerVars, reloadVars, fetchVars
<1>4. ASSUME RequestDone(q) PROVE TypeOK'
  BY <1>4, A2AAssumption DEF RequestDone, RequestEnds, TypeConfig, TypeBroker, TypeReload, TypeFetch,
     TypeRequest, FetchLocals, RequestLocals, cfgVars, pubVars, brokerVars, reloadVars,
     fetchVars, reqVars
<1> QED
  BY <1>1, <1>2, <1>3, <1>4 DEF RequestStep

\* Every step of the broker keeps the types.
LEMMA TypeStep ==
  ASSUME TypeOK, [Next]_vars
  PROVE TypeOK'
<1> USE DEF TypeOK
<1>1. ASSUME NEW u \in Urls, NEW c \in Cards, Publish(u, c) PROVE TypeOK'
  <2>1. clock + 1 \in Stamp
    BY <1>1, Bounds DEF Publish, TypeConfig, Stamp
  <2>2. TypeConfig'
    BY <1>1, <2>1 DEF Publish, TypeConfig, cfgVars
  <2> QED
    BY <1>1, <2>2 DEF Publish, TypeBroker, TypeReload, TypeFetch, TypeRequest,
       FetchLocals, RequestLocals, brokerVars, reloadVars, fetchVars, reqVars
<1>2. ASSUME RefreshAll PROVE TypeOK'
  <2>1. Ticker \in Fetchers
    BY DEF Fetchers
  <2>2. TypeFetch' /\ FetchLocals'
    BY <1>2, <2>1 DEF RefreshAll, TypeFetch, TypeBroker, FetchLocals
  <2> QED
    BY <1>2, <2>2 DEF RefreshAll, TypeConfig, TypeBroker, TypeReload, TypeRequest,
       RequestLocals, cfgVars, pubVars, brokerVars, reloadVars, reqVars
<1>3. CASE UNCHANGED vars
  BY <1>3 DEF vars, cfgVars, pubVars, brokerVars, reloadVars, fetchVars, reqVars,
     TypeConfig, TypeBroker, TypeReload, TypeFetch, TypeRequest, FetchLocals, RequestLocals
<1> QED
  BY <1>1, <1>2, <1>3, TypeConfigStep, TypeReloadStep, TypeFetchStep, TypeRequestStep
     DEF Next

\* Type correctness: every variable of the broker, and every local of a reload,
\* a fetch or a request, has its type in every reachable state.
THEOREM TypeCorrect == Spec => []TypeOK
<1>1. Init => TypeOK
  BY TypeInit
<1>2. TypeOK /\ [Next]_vars => TypeOK'
  BY TypeStep
<1> QED
  BY <1>1, <1>2, PTL DEF Spec

-----------------------------------------------------------------------------
(* The inductive invariant.  A fetch that is under way was begun when the  *)
(* gateway host was known, and the entry it read from the store conforms;  *)
(* without these two facts a commit could not be shown to store a          *)
(* conforming card.                                                        *)

HostKnown ==
  /\ \A k \in Keys : agents[k] # None => host = Host
  /\ \A r \in Reloads : rpc[r] \notin {"idle", "trust"} => host = Host
  /\ \A p \in Fetchers :
       /\ fpc[p] # "idle" => host = Host
       /\ fpc[p] \in {"prev", "client", "wire", "commit"} => fhost[p] = Host

\* A reload's fetching goroutine starts when the reload itself has returned.
SpawnLast == \A r \in Reloads : rpc[r] # "idle" => fpc[r] = "idle"

PrevConforms ==
  /\ SpawnLast
  /\ \A p \in Fetchers :
       /\ fpc[p] \in {"idle", "next", "prev"} => fprev[p] = None
       /\ fprev[p] # None => validateCard(fprev[p].card, Host, fkey[p])

IInv ==
  /\ TypeOK /\ HostKnown /\ PrevConforms
  /\ RejectedNotCached /\ RejectedRegistered /\ StoreTracksAgents
  /\ StoredConform /\ ServedConform

\* The inductive invariant holds of a broker that has just started.
LEMMA IInvInit == Init => IInv
<1> SUFFICES ASSUME Init PROVE IInv
  OBVIOUS
<1>1. TypeOK
  BY TypeInit
<1>2. HostKnown /\ PrevConforms
  BY DEF Init, HostKnown, PrevConforms, SpawnLast, EmptyMap
<1>3. /\ RejectedNotCached /\ RejectedRegistered /\ StoreTracksAgents
      /\ StoredConform /\ ServedConform
  BY DEF Init, RejectedNotCached, RejectedRegistered, StoreTracksAgents, StoredConform,
     ServedConform, EmptyMap
<1> QED BY <1>1, <1>2, <1>3 DEF IInv

\* The steps that write the broker's maps or the store.
LEMMA BrokerFrame ==
  ASSUME [Next]_vars
  PROVE \/ UNCHANGED <<agents, invalid, store>>
        \/ \E r \in Reloads : SetAgentsSwap(r)
        \/ \E r \in Reloads, k \in Keys : EvictDelete(r, k)
        \/ \E p \in Fetchers : FetchCommit(p)
<1> USE DEF brokerVars
<1>1. ConfigStep \/ (\E u \in Urls, c \in Cards : Publish(u, c)) \/ RefreshAll =>
        UNCHANGED <<agents, invalid, store>>
  BY DEF ConfigStep, LoadAgents, LoadCAAndNotify, Publish, RefreshAll
<1>2. ASSUME NEW r \in Reloads, ReloadStep(r)
      PROVE \/ UNCHANGED <<agents, invalid, store>>
            \/ SetAgentsSwap(r) \/ \E k \in Keys : EvictDelete(r, k)
  BY <1>2 DEF ReloadStep, OnConfigChangeTrust, OnConfigChangeList, EvictList, EvictDone,
     RefreshNewScan, RefreshNewSpawn
<1>3. ASSUME NEW p \in Fetchers, FetchStep(p)
      PROVE UNCHANGED <<agents, invalid, store>> \/ FetchCommit(p)
  BY <1>3 DEF FetchStep, FetchBegin, FetchPrev, FetchClient, FetchClientFails, FetchAnswer,
     FetchFails
<1>4. ASSUME NEW q \in Requests, RequestStep(q) PROVE UNCHANGED <<agents, invalid, store>>
  BY <1>4 DEF RequestStep, RequestCard, CheckRejected, GetCard, RequestDone
<1> QED
  BY <1>1, <1>2, <1>3, <1>4 DEF Next, vars

\* The steps that move a fetch.
LEMMA FetchFrame ==
  ASSUME [Next]_vars
  PROVE \/ UNCHANGED fetchVars
        \/ \E r \in Reloads : RefreshNewSpawn(r)
        \/ RefreshAll
        \/ \E p \in Fetchers : FetchStep(p)
<1> USE DEF fetchVars
<1>1. ConfigStep \/ (\E u \in Urls, c \in Cards : Publish(u, c)) => UNCHANGED fetchVars
  BY DEF ConfigStep, LoadAgents, LoadCAAndNotify, Publish
<1>2. ASSUME NEW r \in Reloads, ReloadStep(r) PROVE UNCHANGED fetchVars \/ RefreshNewSpawn(r)
  BY <1>2 DEF ReloadStep, OnConfigChangeTrust, OnConfigChangeList, SetAgentsSwap, EvictList,
     EvictDelete, EvictDone, RefreshNewScan
<1>3. ASSUME NEW q \in Requests, RequestStep(q) PROVE UNCHANGED fetchVars
  BY <1>3 DEF RequestStep, RequestCard, CheckRejected, GetCard, RequestDone
<1> QED
  BY <1>1, <1>2, <1>3 DEF Next, vars

\* The steps that move a reload.
LEMMA ReloadFrame ==
  ASSUME [Next]_vars
  PROVE \/ UNCHANGED <<reloadVars, host, agents>>
        \/ \E pem \in GatewayCAs, r \in Reloads : LoadCAAndNotify(pem, r)
        \/ \E r \in Reloads : ReloadStep(r)
<1> USE DEF reloadVars, brokerVars
<1>1. ASSUME NEW list \in [Keys -> Agent \cup {None}], LoadAgents(list)
      PROVE UNCHANGED <<reloadVars, host, agents>>
  BY <1>1 DEF LoadAgents
<1>2. (\E u \in Urls, c \in Cards : Publish(u, c)) \/ RefreshAll =>
        UNCHANGED <<reloadVars, host, agents>>
  BY DEF Publish, RefreshAll
<1>3. ASSUME NEW p \in Fetchers, FetchStep(p) PROVE UNCHANGED <<reloadVars, host, agents>>
  BY <1>3 DEF FetchStep, FetchBegin, FetchPrev, FetchClient, FetchClientFails, FetchAnswer,
     FetchFails, FetchCommit
<1>4. ASSUME NEW q \in Requests, RequestStep(q) PROVE UNCHANGED <<reloadVars, host, agents>>
  BY <1>4 DEF RequestStep, RequestCard, CheckRejected, GetCard, RequestDone
<1> QED
  BY <1>1, <1>2, <1>3, <1>4 DEF Next, ConfigStep, vars

\* The public host, once published by OnConfigChange, is there for good.
LEMMA HostKnownStep ==
  ASSUME TypeOK, HostKnown, [Next]_vars
  PROVE HostKnown'
<1> USE DEF TypeOK, TypeBroker, TypeReload, TypeFetch, brokerVars, reloadVars, fetchVars
<1>1. host = Host => host' = Host
  <2>1. ASSUME NEW r \in Reloads, ReloadStep(r) PROVE host' \in {host, Host}
    BY <2>1 DEF ReloadStep, OnConfigChangeTrust, OnConfigChangeList, SetAgentsSwap, EvictList,
       EvictDelete, EvictDone, RefreshNewScan, RefreshNewSpawn
  <2>2. ASSUME NEW pem \in GatewayCAs, NEW r \in Reloads, LoadCAAndNotify(pem, r)
        PROVE host' = host
    BY <2>2 DEF LoadCAAndNotify
  <2> QED BY <2>1, <2>2, ReloadFrame
<1>2. \A r \in Reloads : rpc'[r] \notin {"idle", "trust"} => host' = Host
  <2>1. ASSUME NEW r \in Reloads, ReloadStep(r) 
        PROVE \A s \in Reloads : rpc'[s] \notin {"idle", "trust"} => host' = Host
    BY <1>1, <2>1 DEF ReloadStep, OnConfigChangeTrust, OnConfigChangeList, SetAgentsSwap,
       EvictList, EvictDelete, EvictDone, RefreshNewScan, RefreshNewSpawn, HostKnown
  <2>2. ASSUME NEW pem \in GatewayCAs, NEW r \in Reloads, LoadCAAndNotify(pem, r)
        PROVE \A s \in Reloads : rpc'[s] \notin {"idle", "trust"} => host' = Host
    BY <2>2 DEF LoadCAAndNotify, HostKnown
  <2> QED BY <2>1, <2>2, ReloadFrame DEF HostKnown
<1>3. \A k \in Keys : agents'[k] # None => host' = Host
  <2>1. ASSUME NEW r \in Reloads, SetAgentsSwap(r) PROVE host' = Host
    BY <2>1 DEF SetAgentsSwap, HostKnown
  <2>2. ASSUME NEW p \in Fetchers, FetchCommit(p) PROVE agents' = agents
    BY <2>2 DEF FetchCommit
  <2>3. ASSUME NEW r \in Reloads, NEW k \in Keys, EvictDelete(r, k) PROVE agents' = agents
    BY <2>3 DEF EvictDelete
  <2> QED BY <1>1, <2>1, <2>2, <2>3, BrokerFrame DEF HostKnown
<1>4. \A p \in Fetchers :
        /\ fpc'[p] # "idle" => host' = Host
        /\ fpc'[p] \in {"prev", "client", "wire", "commit"} => fhost'[p] = Host
  <2> DEFINE P == \A p \in Fetchers :
                    /\ fpc'[p] # "idle" => host' = Host
                    /\ fpc'[p] \in {"prev", "client", "wire", "commit"} => fhost'[p] = Host
  <2>1. ASSUME NEW r \in Reloads, RefreshNewSpawn(r) PROVE P
    BY <1>1, <2>1 DEF RefreshNewSpawn, HostKnown, Fetchers
  <2>2. ASSUME RefreshAll PROVE P
    BY <1>1, <2>2 DEF RefreshAll, Registered, HostKnown, Fetchers
  <2>3. ASSUME NEW p \in Fetchers, NEW k \in Keys, FetchBegin(p, k) PROVE P
    BY <1>1, <2>3 DEF FetchBegin, HostKnown
  <2>4. ASSUME NEW p \in Fetchers, FetchPrev(p) \/ FetchClient(p) \/ FetchAnswer(p) PROVE P
    BY <1>1, <2>4 DEF FetchPrev, FetchClient, FetchAnswer, HostKnown
  <2>5. ASSUME NEW p \in Fetchers, FetchClientFails(p) \/ FetchFails(p) \/ FetchCommit(p) PROVE P
    <3>1. fpc[p] # "idle" /\ FetchEnd(p)
      BY <2>5 DEF FetchClientFails, FetchFails, FetchCommit
    <3> QED BY <1>1, <3>1 DEF FetchEnd, HostKnown
  <2>6. CASE UNCHANGED fetchVars
    BY <1>1, <2>6 DEF HostKnown
  <2> QED BY <2>1, <2>2, <2>3, <2>4, <2>5, <2>6, FetchFrame DEF FetchStep
<1> QED BY <1>2, <1>3, <1>4 DEF HostKnown

\* refreshNewCards starts its goroutine as the last act of a reload.
LEMMA SpawnLastStep ==
  ASSUME TypeOK, SpawnLast, [Next]_vars
  PROVE SpawnLast'
<1> USE DEF TypeOK, TypeReload, TypeFetch, reloadVars, fetchVars, SpawnLast
<1>1. ASSUME NEW pem \in GatewayCAs, NEW r \in Reloads, LoadCAAndNotify(pem, r)
      PROVE SpawnLast'
  BY <1>1 DEF LoadCAAndNotify
<1>2. ASSUME NEW r \in Reloads, ReloadStep(r) PROVE SpawnLast'
  <2>1. CASE RefreshNewSpawn(r)
    BY <2>1 DEF RefreshNewSpawn, Fetchers
  <2>2. CASE ~RefreshNewSpawn(r)
    <3>1. UNCHANGED fpc /\ rpc[r] # "idle" /\ \A s \in Reloads : s # r => rpc'[s] = rpc[s]
      BY <1>2, <2>2 DEF ReloadStep, OnConfigChangeTrust, OnConfigChangeList, SetAgentsSwap,
         EvictList, EvictDelete, EvictDone, RefreshNewScan
    <3> QED BY <3>1
  <2> QED BY <2>1, <2>2
<1>3. ASSUME UNCHANGED reloadVars PROVE SpawnLast'
  <2>1. ASSUME NEW r \in Reloads, RefreshNewSpawn(r) PROVE FALSE
    BY <1>3, <2>1 DEF RefreshNewSpawn
  <2>2. ASSUME RefreshAll PROVE SpawnLast'
    <3>1. Ticker \notin Reloads
      BY A2AAssumption
    <3> QED BY <1>3, <2>2, <3>1 DEF RefreshAll, Fetchers
  <2>3. ASSUME NEW p \in Fetchers, FetchStep(p)
        PROVE \A r \in Reloads : fpc[r] = "idle" => fpc'[r] = "idle"
    BY <2>3 DEF FetchStep, FetchBegin, FetchPrev, FetchClient, FetchClientFails, FetchAnswer,
       FetchFails, FetchCommit, FetchEnd, Fetchers
  <2> QED BY <1>3, <2>1, <2>2, <2>3, FetchFrame
<1> QED BY <1>1, <1>2, <1>3, ReloadFrame

\* The previous entry a fetch holds was validated when it was stored.
LEMMA PrevConformsStep ==
  ASSUME TypeOK, PrevConforms, StoredConform, [Next]_vars
  PROVE PrevConforms'
<1> USE DEF TypeOK, TypeFetch, fetchVars
<1>1. SpawnLast'
  BY SpawnLastStep DEF PrevConforms
<1>2. ASSUME NEW r \in Reloads, RefreshNewSpawn(r) PROVE PrevConforms'
  <2>1. r \in Fetchers /\ fpc[r] = "idle"
    BY <1>2 DEF RefreshNewSpawn, PrevConforms, SpawnLast, Fetchers
  <2> QED BY <1>1, <1>2, <2>1 DEF RefreshNewSpawn, PrevConforms
<1>3. ASSUME RefreshAll PROVE PrevConforms'
  BY <1>1, <1>3 DEF RefreshAll, PrevConforms, Fetchers
<1>4. ASSUME NEW p \in Fetchers, NEW k \in Keys, FetchBegin(p, k) PROVE PrevConforms'
  BY <1>1, <1>4 DEF FetchBegin, PrevConforms
<1>5. ASSUME NEW p \in Fetchers, FetchPrev(p) PROVE PrevConforms'
  BY <1>1, <1>5 DEF FetchPrev, PrevConforms, StoredConform, FetchLocals
<1>6. ASSUME NEW p \in Fetchers, FetchClient(p) \/ FetchAnswer(p) PROVE PrevConforms'
  BY <1>1, <1>6 DEF FetchClient, FetchAnswer, PrevConforms
<1>7. ASSUME NEW p \in Fetchers, FetchClientFails(p) \/ FetchFails(p) \/ FetchCommit(p)
      PROVE PrevConforms'
  <2>1. FetchEnd(p)
    BY <1>7 DEF FetchClientFails, FetchFails, FetchCommit
  <2> QED BY <1>1, <2>1 DEF FetchEnd, PrevConforms
<1>8. CASE UNCHANGED fetchVars
  BY <1>1, <1>8 DEF PrevConforms
<1> QED
  BY <1>2, <1>3, <1>4, <1>5, <1>6, <1>7, <1>8, FetchFrame DEF FetchStep

\* refreshCard stores validated cards, or one it had stored before.
LEMMA StoredConformStep ==
  ASSUME TypeOK, HostKnown, PrevConforms, StoredConform, [Next]_vars
  PROVE StoredConform'
<1> USE DEF TypeOK, TypeBroker, StoredConform
<1>1. ASSUME NEW r \in Reloads, NEW k \in Keys, EvictDelete(r, k) PROVE StoredConform'
  BY <1>1 DEF EvictDelete
<1>2. ASSUME NEW p \in Fetchers, FetchCommit(p) PROVE StoredConform'
  <2>1. fhost[p] = Host
    BY <1>2 DEF FetchCommit, HostKnown
  <2>2. ASSUME NEW entry \in CardEntry, Committed(p, entry), Stores(p, entry)
        PROVE StoredConform'
    <3>1. validateCard(entry.card, Host, fkey[p])
      <4>1. CASE entry = fprev[p]
        BY <4>1, <2>2, A2AAssumption DEF PrevConforms, CardEntry, ETag
      <4>2. CASE entry # fprev[p]
        <5>1. entry.card = fresp[p].card
          <6>1. entry = [card |-> fresp[p].card, etag |-> fresp[p].etag,
                         lm |-> fresp[p].lm, src |-> fagent[p].url]
            BY <2>2, <4>2 DEF Committed
          <6> QED BY <6>1
        <5>2. \/ validateCard(fresp[p].card, Host, fkey[p])
              \/ fprev[p] # None /\ fprev[p].card = fresp[p].card
          BY <2>1, <2>2, <4>2 DEF Committed
        <5> QED BY <5>1, <5>2 DEF PrevConforms
      <4> QED BY <4>1, <4>2
    <3> QED BY <2>2, <3>1, <1>2, CommitOutcome DEF Stores
  <2>3. CASE Rejects(p)
    BY <2>3, <1>2, CommitOutcome DEF Rejects
  <2>4. CASE UNCHANGED <<invalid, store>>
    BY <2>4
  <2> QED BY <1>2, <2>2, <2>3, <2>4, CommitOutcome
<1>3. ASSUME NEW r \in Reloads, SetAgentsSwap(r) PROVE StoredConform'
  BY <1>3 DEF SetAgentsSwap
<1> QED BY <1>1, <1>2, <1>3, BrokerFrame

\* ServeAgentCard answers 200 only with what it has just read from the store.
LEMMA ServedConformStep ==
  ASSUME TypeOK, StoredConform, ServedConform, [Next]_vars
  PROVE ServedConform'
<1> USE DEF TypeOK, TypeRequest, RequestLocals, ServedConform, reqVars
<1>1. ASSUME NEW q \in Requests, RequestStep(q) PROVE ServedConform'
  <2>1. ASSUME NEW k \in Keys, RequestCard(q, k) PROVE ServedConform'
    BY <2>1 DEF RequestCard
  <2>2. CASE CheckRejected(q) \/ RequestDone(q)
    BY <2>2 DEF CheckRejected, RequestDone, RequestEnds
  <2>3. CASE GetCard(q)
    BY <2>3 DEF GetCard, RequestEnds, StoredConform
  <2> QED BY <1>1, <2>1, <2>2, <2>3 DEF RequestStep
<1>2. CASE UNCHANGED reqVars
  BY <1>2
<1>3. ASSUME NEW r \in Reloads, ReloadStep(r) PROVE UNCHANGED reqVars
  BY <1>3 DEF ReloadStep, OnConfigChangeTrust, OnConfigChangeList, SetAgentsSwap, EvictList,
     EvictDelete, EvictDone, RefreshNewScan, RefreshNewSpawn
<1>4. ASSUME NEW p \in Fetchers, FetchStep(p) PROVE UNCHANGED reqVars
  BY <1>4 DEF FetchStep, FetchBegin, FetchPrev, FetchClient, FetchClientFails, FetchAnswer,
     FetchFails, FetchCommit
<1>5. ConfigStep \/ (\E u \in Urls, c \in Cards : Publish(u, c)) \/ RefreshAll =>
        UNCHANGED reqVars
  BY DEF ConfigStep, LoadAgents, LoadCAAndNotify, Publish, RefreshAll
<1> QED BY <1>1, <1>2, <1>3, <1>4, <1>5 DEF Next, vars

\* A commit either stores or rejects, and SetAgents forgets the rejections of
\* the agents it drops.
LEMMA RejectionStep ==
  ASSUME TypeOK, RejectedNotCached, RejectedRegistered, [Next]_vars
  PROVE RejectedNotCached' /\ RejectedRegistered'
<1> USE DEF TypeOK, TypeBroker, RejectedNotCached, RejectedRegistered
<1>1. ASSUME NEW r \in Reloads, NEW k \in Keys, EvictDelete(r, k)
      PROVE RejectedNotCached' /\ RejectedRegistered'
  BY <1>1 DEF EvictDelete, brokerVars
<1>2. ASSUME NEW r \in Reloads, SetAgentsSwap(r)
      PROVE RejectedNotCached' /\ RejectedRegistered'
  BY <1>2 DEF SetAgentsSwap
<1>3. ASSUME NEW p \in Fetchers, FetchCommit(p)
      PROVE RejectedNotCached' /\ RejectedRegistered'
  <2>1. UNCHANGED agents /\ fkey[p] \in Keys
    BY <1>3, CommitOutcome DEF FetchCommit
  <2>2. CASE Rejects(p)
    BY <2>1, <2>2 DEF Rejects, stillCurrent
  <2>3. CASE \E entry \in CardEntry : Committed(p, entry) /\ Stores(p, entry)
    BY <2>1, <2>3 DEF Stores
  <2>4. CASE UNCHANGED <<invalid, store>>
    BY <2>1, <2>4
  <2> QED BY <1>3, <2>2, <2>3, <2>4, CommitOutcome
<1> QED BY <1>1, <1>2, <1>3, BrokerFrame

\* SetAgents leaves an eviction pending for every cached agent it drops.
LEMMA StoreTracksAgentsStep ==
  ASSUME TypeOK, StoreTracksAgents, [Next]_vars
  PROVE StoreTracksAgents'
<1> USE DEF TypeOK, TypeBroker, TypeReload, StoreTracksAgents, EvictionPending
<1>1. ASSUME NEW r \in Reloads, ReloadStep(r) PROVE StoreTracksAgents'
  <2>1. CASE OnConfigChangeTrust(r) \/ OnConfigChangeList(r)
    BY <2>1 DEF OnConfigChangeTrust, OnConfigChangeList, brokerVars
  <2>2. CASE SetAgentsSwap(r)
    BY <2>2 DEF SetAgentsSwap
  <2>3. CASE EvictList(r)
    <3>1. \A k \in Keys : EvictionPending(k) /\ store[k] # None => EvictionPending(k)'
      BY <2>3 DEF EvictList, Registered
    <3> QED BY <2>3, <3>1 DEF EvictList, brokerVars
  <2>4. ASSUME NEW k \in Keys, EvictDelete(r, k) PROVE StoreTracksAgents'
    BY <2>4 DEF EvictDelete, brokerVars
  <2>5. CASE EvictDone(r) \/ RefreshNewSpawn(r)
    BY <2>5 DEF EvictDone, RefreshNewSpawn, brokerVars
  <2>6. ASSUME NEW k \in Keys, RefreshNewScan(r, k) PROVE StoreTracksAgents'
    BY <2>6 DEF RefreshNewScan, brokerVars
  <2> QED BY <1>1, <2>1, <2>2, <2>3, <2>4, <2>5, <2>6 DEF ReloadStep
<1>2. ASSUME NEW pem \in GatewayCAs, NEW r \in Reloads, LoadCAAndNotify(pem, r)
      PROVE StoreTracksAgents'
  BY <1>2 DEF LoadCAAndNotify, brokerVars
<1>3. ASSUME NEW p \in Fetchers, FetchCommit(p) PROVE StoreTracksAgents'
  <2>1. UNCHANGED <<agents, reloadVars>> /\ fkey[p] \in Keys
    BY <1>3, CommitOutcome DEF FetchCommit
  <2>2. CASE Rejects(p)
    BY <2>1, <2>2 DEF Rejects, reloadVars
  <2>3. CASE \E entry \in CardEntry : Committed(p, entry) /\ Stores(p, entry)
    BY <2>1, <2>3 DEF Stores, stillCurrent, reloadVars
  <2>4. CASE UNCHANGED <<invalid, store>>
    BY <2>1, <2>4 DEF reloadVars
  <2> QED BY <1>3, <2>2, <2>3, <2>4, CommitOutcome
<1>4. CASE UNCHANGED <<reloadVars, host, agents, store>>
  BY <1>4 DEF reloadVars
<1>5. ASSUME NEW r \in Reloads, SetAgentsSwap(r) PROVE StoreTracksAgents'
  BY <1>1, <1>5 DEF ReloadStep
<1>6. ASSUME NEW r \in Reloads, NEW k \in Keys, EvictDelete(r, k) PROVE StoreTracksAgents'
  BY <1>1, <1>6 DEF ReloadStep
<1> QED BY <1>1, <1>2, <1>3, <1>4, <1>5, <1>6, ReloadFrame, BrokerFrame

\* Every step of the broker preserves the inductive invariant.
LEMMA IInvStep ==
  ASSUME IInv, [Next]_vars
  PROVE IInv'
<1> USE DEF IInv
<1>1. TypeOK' /\ HostKnown'
  BY TypeStep, HostKnownStep
<1>2. PrevConforms' /\ StoredConform' /\ ServedConform'
  BY PrevConformsStep, StoredConformStep, ServedConformStep
<1>3. RejectedNotCached' /\ RejectedRegistered' /\ StoreTracksAgents'
  BY RejectionStep, StoreTracksAgentsStep
<1> QED BY <1>1, <1>2, <1>3

\* The inductive invariant holds in every reachable state of the A2A broker: the
\* conjunction of the properties below with what they need of a reload's and a
\* fetch's locals.
THEOREM Invariance == Spec => []IInv
<1>1. Init => IInv
  BY IInvInit
<1>2. IInv /\ [Next]_vars => IInv'
  BY IInvStep
<1> QED BY <1>1, <1>2, PTL DEF Spec

-----------------------------------------------------------------------------
(* Commits come from the registered upstream.  When no upstream answers by *)
(* modification date alone, an entry's tag names the URL it came from, so  *)
(* a 304 can only confirm a card of the URL that was asked.                *)

NoLastModified == \A u \in Urls : ValidatorOf[u] # "lastmod"

TagNamesSource(e) == e.lm = 0 /\ (e.etag # None => e.etag[1] = e.src)

SourceInv ==
  /\ \A k \in Keys : store[k] # None => TagNamesSource(store[k])
  /\ \A p \in Fetchers :
       /\ fprev[p] # None => TagNamesSource(fprev[p])
       /\ fpc[p] = "commit" =>
            /\ fresp[p].lm = 0 /\ (fresp[p].etag # None => fresp[p].etag[1] = fagent[p].url)
            /\ fresp[p].status = "304" => fprev[p].src = fagent[p].url

\* Whatever a commit stores was downloaded from the URL the fetch was for.
LEMMA CommittedSource ==
  ASSUME TypeOK, SourceInv, NEW p \in Fetchers, FetchCommit(p),
         NEW entry \in CardEntry, Committed(p, entry)
  PROVE entry.src = fagent[p].url /\ TagNamesSource(entry)
<1>0. fpc[p] = "commit"
  BY DEF FetchCommit
<1>1. CASE fresp[p].status = "304" /\ entry = fprev[p]
  <2>1. fprev[p] # None
    BY <1>1, A2AAssumption DEF CardEntry, ETag
  <2> QED BY <1>0, <1>1, <2>1 DEF SourceInv
<1>2. CASE entry = [card |-> fresp[p].card, etag |-> fresp[p].etag,
                    lm |-> fresp[p].lm, src |-> fagent[p].url]
  BY <1>0, <1>2 DEF SourceInv, TagNamesSource
<1> QED BY <1>1, <1>2 DEF Committed

\* What the store holds carries the tag of the URL it came from.
LEMMA SourceStoreStep ==
  ASSUME TypeOK, SourceInv, [Next]_vars
  PROVE \A k \in Keys : store'[k] # None => TagNamesSource(store'[k])
<1> USE DEF TypeOK, TypeBroker
<1> DEFINE P == \A k \in Keys : store'[k] # None => TagNamesSource(store'[k])
<1>1. ASSUME NEW p \in Fetchers, FetchCommit(p) PROVE P
  <2>1. ASSUME NEW entry \in CardEntry, Committed(p, entry), Stores(p, entry) PROVE P
    <3>1. TagNamesSource(entry) /\ fkey[p] \in Keys
      BY <1>1, <2>1, CommittedSource, CommitOutcome
    <3> QED BY <2>1, <3>1 DEF Stores, SourceInv
  <2>2. CASE Rejects(p)
    BY <1>1, <2>2, CommitOutcome DEF Rejects, SourceInv
  <2>3. CASE UNCHANGED <<invalid, store>>
    BY <2>3 DEF SourceInv
  <2> QED BY <1>1, <2>1, <2>2, <2>3, CommitOutcome
<1>2. ASSUME NEW r \in Reloads, NEW k \in Keys, EvictDelete(r, k) PROVE P
  BY <1>2 DEF EvictDelete, SourceInv
<1>3. ASSUME NEW r \in Reloads, SetAgentsSwap(r) PROVE P
  BY <1>3 DEF SetAgentsSwap, SourceInv
<1>4. CASE UNCHANGED <<agents, invalid, store>>
  BY <1>4 DEF SourceInv
<1> QED BY <1>1, <1>2, <1>3, <1>4, BrokerFrame

\* So does what a fetch holds between reading the store and committing.
LEMMA SourceStep ==
  ASSUME NoLastModified, TypeOK, PrevConforms, SourceInv, [Next]_vars
  PROVE SourceInv'
<1> USE DEF TypeOK, TypeFetch, fetchVars
<1>1. \A k \in Keys : store'[k] # None => TagNamesSource(store'[k])
  BY SourceStoreStep
<1>2. ASSUME NEW r \in Reloads, RefreshNewSpawn(r) PROVE SourceInv'
  BY <1>1, <1>2 DEF RefreshNewSpawn, SourceInv, Fetchers
<1>3. ASSUME RefreshAll PROVE SourceInv'
  BY <1>1, <1>3 DEF RefreshAll, SourceInv, Fetchers
<1>4. ASSUME NEW p \in Fetchers, NEW k \in Keys, FetchBegin(p, k) PROVE SourceInv'
  BY <1>1, <1>4 DEF FetchBegin, SourceInv
<1>5. ASSUME NEW p \in Fetchers, FetchPrev(p) PROVE SourceInv'
  BY <1>1, <1>5 DEF FetchPrev, SourceInv, FetchLocals
<1>6. ASSUME NEW p \in Fetchers, FetchClient(p) PROVE SourceInv'
  BY <1>1, <1>6 DEF FetchClient, SourceInv
<1>7. ASSUME NEW p \in Fetchers, FetchAnswer(p) PROVE SourceInv'
  <2> DEFINE u == fagent[p].url
             resp == answer(u, fprev[p])
  <2>1. u \in Urls /\ ValidatorOf[u] # "lastmod"
    BY <1>7, A2AAssumption DEF FetchAnswer, FetchLocals, NoLastModified
  <2>2. resp.lm = 0 /\ (resp.etag # None => resp.etag[1] = u)
    BY <2>1 DEF answer
  <2>3. resp.status = "304" => fprev[p].src = u
    <3>1. resp.status = "304" => notModified(u, fprev[p])
      BY DEF answer
    <3>2. notModified(u, fprev[p]) => fprev[p] # None /\ fprev[p].etag = <<u, pub[u].at>>
      BY <2>1 DEF notModified
    <3>3. fprev[p] # None /\ fprev[p].etag = <<u, pub[u].at>> => fprev[p].src = u
      <4> SUFFICES ASSUME fprev[p] # None, fprev[p].etag = <<u, pub[u].at>> PROVE fprev[p].src = u
        OBVIOUS
      <4>1. <<u, pub[u].at>> # None
        <5>1. pub[u].at \in Stamp
          BY <2>1 DEF TypeConfig
        <5>2. <<u, pub[u].at>> \in Urls \X Stamp
          BY <2>1, <5>1
        <5>3. None \notin Urls \X Stamp
          BY A2AAssumption
        <5> QED BY <5>2, <5>3
      <4>2. \A at : <<u, at>>[1] = u
        OBVIOUS
      <4>3. fprev[p].etag[1] = fprev[p].src
        BY <4>1 DEF SourceInv, TagNamesSource
      <4> QED BY <4>2, <4>3
    <3> QED BY <3>1, <3>2, <3>3
  <2> QED BY <1>1, <1>7, <2>2, <2>3 DEF FetchAnswer, SourceInv
<1>8. ASSUME NEW p \in Fetchers, FetchClientFails(p) \/ FetchFails(p) \/ FetchCommit(p)
      PROVE SourceInv'
  <2>1. FetchEnd(p)
    BY <1>8 DEF FetchClientFails, FetchFails, FetchCommit
  <2> QED BY <1>1, <2>1 DEF FetchEnd, SourceInv
<1>9. CASE UNCHANGED fetchVars
  BY <1>1, <1>9 DEF SourceInv
<1> QED
  BY <1>2, <1>3, <1>4, <1>5, <1>6, <1>7, <1>8, <1>9, FetchFrame DEF FetchStep

\* A step that changes a cached card stores one from the registered URL.
LEMMA CommitsRegisteredStep ==
  ASSUME TypeOK, SourceInv, [Next]_vars
  PROVE CommitsRegistered
<1> USE DEF TypeOK, TypeBroker
<1>1. ASSUME NEW p \in Fetchers, FetchCommit(p) PROVE CommitsRegistered
  <2>1. ASSUME NEW entry \in CardEntry, Committed(p, entry), Stores(p, entry)
        PROVE CommitsRegistered
    <3>1. entry.src = fagent[p].url /\ fkey[p] \in Keys
      BY <1>1, <2>1, CommittedSource, CommitOutcome
    <3>2. agents[fkey[p]] # None /\ agents[fkey[p]].url = fagent[p].url
      BY <2>1 DEF Stores, stillCurrent, agentFingerprint
    <3> QED BY <2>1, <3>1, <3>2 DEF Stores, CommitsRegistered
  <2>2. CASE Rejects(p)
    BY <1>1, <2>2, CommitOutcome DEF Rejects, CommitsRegistered
  <2>3. CASE UNCHANGED <<invalid, store>>
    BY <2>3 DEF CommitsRegistered
  <2> QED BY <1>1, <2>1, <2>2, <2>3, CommitOutcome
<1>2. ASSUME NEW r \in Reloads, NEW k \in Keys, EvictDelete(r, k) PROVE CommitsRegistered
  BY <1>2 DEF EvictDelete, CommitsRegistered
<1>3. ASSUME NEW r \in Reloads, SetAgentsSwap(r) PROVE CommitsRegistered
  BY <1>3 DEF SetAgentsSwap, CommitsRegistered
<1>4. CASE UNCHANGED <<agents, invalid, store>>
  BY <1>4 DEF CommitsRegistered
<1> QED BY <1>1, <1>2, <1>3, <1>4, BrokerFrame

-----------------------------------------------------------------------------
(* The theorems *)

\* storeIfCurrent and failCardValidation keep Broker.invalid and the card store
\* apart, for any number of overlapping reloads, fetches and evictions.
THEOREM RejectionSafe == Spec => []RejectedNotCached
<1>1. IInv => RejectedNotCached BY DEF IInv
<1> QED BY <1>1, Invariance, PTL

\* A fetch that ends after its agent was deregistered leaves no rejection behind:
\* failCardValidation checks the index, and SetAgents drops the rejections of
\* agents that are gone.
THEOREM RejectionsRegistered == Spec => []RejectedRegistered
<1>1. IInv => RejectedRegistered BY DEF IInv
<1> QED BY <1>1, Invariance, PTL

\* evictStaleCards and the currency check of storeIfCurrent keep the store a
\* subset of the registered agents, up to evictions still to be carried out.
THEOREM StoreBounded == Spec => []StoreTracksAgents
<1>1. IInv => StoreTracksAgents
  BY DEF IInv
<1> QED BY <1>1, Invariance, PTL

\* The store holds only cards that conform to the path of their agent and to the
\* gateway's host, also those stored again after a 304.
THEOREM ConformingOnly == Spec => []StoredConform
<1>1. IInv => StoredConform BY DEF IInv
<1> QED BY <1>1, Invariance, PTL

\* ServeAgentCard hands out only such cards, although it reads index, rejections
\* and store in three separate steps.
THEOREM ServesConforming == Spec => []ServedConform
<1>1. IInv => ServedConform BY DEF IInv
<1> QED BY <1>1, Invariance, PTL

\* If every upstream answers conditional requests by entity tag, or not at all,
\* refreshCard commits only cards of the URL the agent is registered with.
THEOREM CommitsComeFromUpstream == NoLastModified => (Spec => CommitFromRegisteredURL)
<1> SUFFICES ASSUME NoLastModified PROVE Spec => CommitFromRegisteredURL
  OBVIOUS
<1>1. Init => IInv /\ SourceInv
  <2>1. ASSUME Init PROVE SourceInv
    <3>1. \A k \in Keys : store[k] = None
      BY <2>1 DEF Init, EmptyMap
    <3>2. \A p \in Fetchers : fprev[p] = None /\ fpc[p] = "idle"
      BY <2>1 DEF Init
    <3> QED BY <3>1, <3>2 DEF SourceInv
  <2> QED BY <2>1, IInvInit
<1>2. IInv /\ SourceInv /\ [Next]_vars => (IInv /\ SourceInv)'
  BY IInvStep, SourceStep DEF IInv
<1>3. IInv /\ SourceInv /\ [Next]_vars => [CommitsRegistered]_vars
  BY CommitsRegisteredStep DEF IInv
<1> QED BY <1>1, <1>2, <1>3, PTL DEF Spec, CommitFromRegisteredURL

=============================================================================
