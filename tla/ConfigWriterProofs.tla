------------------------- MODULE ConfigWriterProofs -------------------------
(***************************************************************************)
(* Proofs about ConfigWriter: type correctness, what a resource version    *)
(* identifies, and that the writer implements ConfigStore.  The inductive  *)
(* invariant IInv adds to TypeOK and VersionsIdentify where each writer is *)
(* in its call (Placed) and that no copy is newer than the last version    *)
(* given out (CopiesOld): a version given out next is then like no copy.   *)
(***************************************************************************)
EXTENDS ConfigWriter, TLAPS

WriterTypes ==
  /\ op \in [Writers -> Ops \cup {None}]
  /\ pc \in [Writers -> {"idle", "get", "create", "reget", "update", "delete"}]
  /\ todo \in [Writers -> SUBSET Namespaces]
  /\ at \in [Writers -> Namespaces \cup {None}]
  /\ copy \in [Writers -> Secrets \cup {None}]
  /\ tries \in [Writers -> 0 .. MaxTries]

Placed == \A w \in Writers :
  /\ op[w] = None => pc[w] = "idle" /\ todo[w] = {} /\ copy[w] = None
  /\ op[w] # None => pc[w] # "idle" /\ at[w] \in todo[w]
  /\ pc[w] = "update" => copy[w] # None /\ op[w].kind # "delete"
  /\ pc[w] = "delete" => op[w].kind = "delete"
  /\ pc[w] \in {"create", "reget"} => op[w].kind # "delete"

CopiesOld == \A w \in Writers : copy[w] # None => copy[w].rv <= version[at[w]]

IInv == TypeOK /\ Placed /\ CopiesOld /\ VersionsIdentify

-----------------------------------------------------------------------------
\* The writer's copies after a step of w: kept with the secret they are of, or
\* what w has just read of its secret, or dropped.
Copied(w, s) == \A v \in Writers : copy'[v] # None =>
  \/ copy'[v] = copy[v] /\ at'[v] = at[v]
  \/ v = w /\ copy'[v] = s /\ at'[v] = at[v]

\* What an operation makes of a configuration is a configuration again.
LEMMA AppliedConfig ==
  ASSUME NEW o \in Ops, NEW c \in Configs PROVE Applied(o, c) \in Configs
<1>1. EmptyConfig \in Configs BY DEF EmptyConfig, Configs
<1>2. CASE o.kind = "upsert"
  <2>1. o.section \in Sections /\ o.name \in Names /\ o.value \in Values BY <1>2 DEF Ops
  <2> QED BY <1>2, <2>1 DEF Applied, Configs
<1>3. CASE o.kind = "remove"
  <2>1. o.section \in Sections /\ o.name \in Names BY <1>3 DEF Ops
  <2> QED BY <1>3, <2>1 DEF Applied, Configs
<1>4. CASE o.kind = "virtualServers"
  <2>1. o.value \in Values \cup {None} BY <1>4 DEF Ops
  <2> QED BY <1>4, <2>1 DEF Applied, Configs
<1>5. CASE o.kind = "caBundle"
  <2>1. o.value \in Values \cup {None} BY <1>5 DEF Ops
  <2> QED BY <1>5, <2>1 DEF Applied, Configs
<1>6. CASE o.kind \notin {"upsert", "remove", "virtualServers", "caBundle"}
  BY <1>1, <1>6 DEF Applied
<1> QED BY <1>2, <1>3, <1>4, <1>5, <1>6

\* When the call is done with a secret, the writer is idle or at the next one.
LEMMA DoneKeeps ==
  ASSUME WriterTypes, Placed, NEW w \in Writers, op[w] # None, SecretDone(w)
  PROVE  WriterTypes' /\ Placed' /\ \A s : Copied(w, s)
<1> USE WriterAssumption
<1>1. CASE todo[w] \ {at[w]} = {}
  <2>1. Return(w) BY <1>1 DEF SecretDone
  <2> QED BY <2>1 DEF Return, WriterTypes, Placed, Copied
<1>2. CASE todo[w] \ {at[w]} # {}
  <2>1. PICK ns \in todo[w] \ {at[w]} :
          /\ todo' = [todo EXCEPT ![w] = todo[w] \ {at[w]}]
          /\ TurnTo(w, ns) /\ op' = op
    BY <1>2 DEF SecretDone
  <2> QED BY <2>1 DEF TurnTo, WriterTypes, Placed, Copied
<1> QED BY <1>1, <1>2

\* With the secret read, the call is done with it or holds a copy of it.
LEMMA DecideKeeps ==
  ASSUME WriterTypes, Placed, NEW w \in Writers, op[w] # None,
         NEW s \in Secrets, Decide(w, s)
  PROVE  WriterTypes' /\ Placed' /\ Copied(w, s)
<1>1. CASE Skipped(op[w], s.config) BY <1>1, DoneKeeps DEF Decide
<1>2. CASE ~Skipped(op[w], s.config)
  BY <1>2, WriterAssumption DEF Decide, WriterTypes, Placed, Copied
<1> QED BY <1>1, <1>2

\* A step that leaves the secrets alone keeps what the versions identify, if
\* what it reads is the informer's copy.
LEMMA ReadKeeps ==
  ASSUME IInv, NEW w \in Writers, at[w] \in Namespaces, NEW s, Copied(w, s),
         WriterTypes', Placed', UNCHANGED api, s = cache[at[w]]
  PROVE  CopiesOld' /\ VersionsIdentify'
<1> USE DEF api, Copied, Placed, WriterTypes
<1>1. CopiesOld'
  BY DEF IInv, CopiesOld, VersionsIdentify
<1>2. VersionsIdentify'
  BY DEF IInv, VersionsIdentify
<1> QED BY <1>1, <1>2

\* A secret given a new version, or deleted, is like no copy that is around.
LEMMA WriteKeeps ==
  ASSUME IInv, NEW w \in Writers, at[w] \in Namespaces, NEW s \in Secrets, Copied(w, s),
         WriterTypes', Placed', cache' = cache,
         s.rv = version[at[w]] + 1, secret' = [secret EXCEPT ![at[w]] = s],
         version' = [version EXCEPT ![at[w]] = s.rv]
  PROVE  CopiesOld' /\ VersionsIdentify'
<1> USE DEF Copied, Placed, WriterTypes
<1>1. \A v \in Writers : copy[v] # None => copy[v].rv \in Nat /\ at[v] \in Namespaces
  BY DEF IInv, TypeOK, Secrets
<1>2. \A ns \in Namespaces : /\ version[ns] \in Nat
                             /\ secret[ns] # None => secret[ns].rv \in Nat
                             /\ cache[ns] # None => cache[ns].rv \in Nat
  BY DEF IInv, TypeOK, Secrets
<1>3. CopiesOld'
  BY <1>1, <1>2 DEF IInv, CopiesOld, TypeOK
<1>4. VersionsIdentify'
  BY <1>1, <1>2 DEF IInv, CopiesOld, VersionsIdentify, TypeOK
<1> QED BY <1>3, <1>4

\* Initially nobody has a copy of anything.
LEMMA InitIInv == Init => IInv
BY WriterAssumption DEF Init, IInv, TypeOK, Placed, CopiesOld, VersionsIdentify

\* A writer in a call is at one of the secrets it has yet to deal with.
LEMMA AtSecret ==
  ASSUME IInv, NEW w \in Writers, pc[w] # "idle"
  PROVE  /\ WriterTypes /\ Placed /\ op[w] # None /\ op[w] \in Ops
         /\ at[w] \in Namespaces /\ at[w] \in todo[w]
BY DEF IInv, TypeOK, WriterTypes, Placed

\* Every step keeps the invariant.
LEMMA NextIInv == IInv /\ [Next]_vars => IInv'
<1> SUFFICES ASSUME IInv, [Next]_vars PROVE IInv' OBVIOUS
<1>0. WriterTypes BY DEF IInv, TypeOK, WriterTypes
<1>1. ASSUME NEW w \in Writers, Get(w) PROVE IInv'
  <2>1. /\ op[w] # None /\ at[w] \in Namespaces /\ op[w] \in Ops BY <1>1, AtSecret DEF Get
  <2>2. CASE cache[at[w]] # None
    <3>1. cache[at[w]] \in Secrets BY <2>1, <2>2 DEF IInv, TypeOK
    <3>2. WriterTypes' /\ Placed' /\ Copied(w, cache[at[w]])
      BY <1>0, <1>1, <2>1, <2>2, <3>1, DecideKeeps DEF Get, IInv
    <3> QED BY <1>1, <2>1, <3>2, ReadKeeps DEF Get, IInv, TypeOK, WriterTypes, api
  <2>3. CASE cache[at[w]] = None /\ op[w].kind = "delete"
    <3>1. WriterTypes' /\ Placed' /\ Copied(w, cache[at[w]])
      BY <1>0, <1>1, <2>1, <2>3, DoneKeeps DEF Get, IInv
    <3> QED BY <1>1, <2>1, <3>1, ReadKeeps DEF Get, IInv, TypeOK, WriterTypes, api
  <2>4. CASE cache[at[w]] = None /\ op[w].kind # "delete"
    <3>1. WriterTypes' /\ Placed' /\ Copied(w, cache[at[w]])
      BY <1>0, <1>1, <2>1, <2>4 DEF Get, IInv, WriterTypes, Placed, Copied
    <3> QED BY <1>1, <2>1, <3>1, ReadKeeps DEF Get, IInv, TypeOK, WriterTypes, api
  <2> QED BY <2>2, <2>3, <2>4
<1>2. ASSUME NEW w \in Writers, Create(w) PROVE IInv'
  <2>1. /\ op[w] # None /\ at[w] \in Namespaces /\ op[w] \in Ops BY <1>2, AtSecret DEF Create
  <2>2. CASE secret[at[w]] = None
    <3> DEFINE s == [rv |-> version[at[w]] + 1, config |-> EmptyConfig]
    <3>1. s \in Secrets BY <2>1 DEF IInv, TypeOK, Secrets, EmptyConfig, Configs
    <3>2. /\ secret' = [secret EXCEPT ![at[w]] = s] /\ Decide(w, s) /\ cache' = cache
          /\ version' = [version EXCEPT ![at[w]] = s.rv] /\ s.rv = version[at[w]] + 1
          /\ calls' = calls /\ failures' = failures
      BY <1>2, <2>2 DEF Create
    <3> HIDE DEF s
    <3>3. WriterTypes' /\ Placed' /\ Copied(w, s)
      BY <1>0, <2>1, <3>1, <3>2, DecideKeeps DEF IInv
    <3>4. CopiesOld' /\ VersionsIdentify' BY <2>1, <3>1, <3>2, <3>3, WriteKeeps
    <3>5. s.rv \in Nat BY <3>1 DEF Secrets
    <3> QED BY <2>1, <3>1, <3>2, <3>3, <3>4, <3>5 DEF IInv, TypeOK, WriterTypes
  <2>3. CASE secret[at[w]] # None
    <3>1. WriterTypes' /\ Placed' /\ Copied(w, cache[at[w]])
      BY <1>0, <1>2, <2>1, <2>3 DEF Create, IInv, WriterTypes, Placed, Copied
    <3> QED BY <1>2, <2>1, <2>3, <3>1, ReadKeeps DEF Create, IInv, TypeOK, WriterTypes, api
  <2> QED BY <2>2, <2>3
<1>3. ASSUME NEW w \in Writers, ReGet(w) PROVE IInv'
  <2>1. /\ op[w] # None /\ at[w] \in Namespaces BY <1>3, AtSecret DEF ReGet
  <2>2. WriterTypes' /\ Placed' /\ Copied(w, cache[at[w]])
    <3>1. CASE cache[at[w]] = None
      BY <1>0, <1>3, <2>1, <3>1, DoneKeeps DEF ReGet, IInv
    <3>2. CASE cache[at[w]] # None
      <4>1. cache[at[w]] \in Secrets BY <2>1, <3>2 DEF IInv, TypeOK
      <4> QED BY <1>0, <1>3, <2>1, <3>2, <4>1, DecideKeeps DEF ReGet, IInv
    <3> QED BY <3>1, <3>2
  <2> QED BY <1>3, <2>1, <2>2, ReadKeeps DEF ReGet, IInv, TypeOK, WriterTypes, api
<1>4. ASSUME NEW w \in Writers, Update(w) PROVE IInv'
  <2>1. /\ op[w] # None /\ at[w] \in Namespaces /\ op[w] \in Ops BY <1>4, AtSecret DEF Update
  <2>2. copy[w] \in Secrets BY <1>4 DEF Update, IInv, TypeOK, Placed
  <2>3. CASE Current(w) /\ Applied(op[w], copy[w].config) # secret[at[w]].config
    <3> DEFINE c == Applied(op[w], copy[w].config)
               s == [rv |-> version[at[w]] + 1, config |-> c]
    <3>1. s \in Secrets
      <4>1. c \in Configs BY <2>1, <2>2, AppliedConfig DEF Secrets
      <4> QED BY <2>1, <4>1 DEF IInv, TypeOK, Secrets
    <3>2. /\ secret' = [secret EXCEPT ![at[w]] = s] /\ SecretDone(w) /\ cache' = cache
          /\ version' = [version EXCEPT ![at[w]] = s.rv] /\ s.rv = version[at[w]] + 1
          /\ calls' = calls /\ failures' = failures
      BY <1>4, <2>3 DEF Update
    <3> HIDE DEF c, s
    <3>3. WriterTypes' /\ Placed' /\ Copied(w, s) BY <1>0, <2>1, <3>2, DoneKeeps DEF IInv
    <3>4. CopiesOld' /\ VersionsIdentify' BY <2>1, <3>1, <3>2, <3>3, WriteKeeps
    <3>5. s.rv \in Nat BY <3>1 DEF Secrets
    <3> QED BY <2>1, <3>1, <3>2, <3>3, <3>4, <3>5 DEF IInv, TypeOK, WriterTypes
  <2>4. CASE Current(w) /\ Applied(op[w], copy[w].config) = secret[at[w]].config
    <3>1. SecretDone(w) /\ UNCHANGED <<api, calls, failures>> BY <1>4, <2>4 DEF Update, api
    <3>2. WriterTypes' /\ Placed' /\ Copied(w, cache[at[w]])
      BY <1>0, <2>1, <3>1, DoneKeeps DEF IInv
    <3> QED BY <2>1, <3>1, <3>2, ReadKeeps DEF IInv, TypeOK, WriterTypes, api
  <2>5. CASE ~Current(w)
    <3>1. SecretDone(w) \/ Conflict(w) BY <1>4, <2>5 DEF Update
    <3>2. UNCHANGED <<api, calls, failures>> BY <1>4, <2>5 DEF Update, api
    <3>3. WriterTypes' /\ Placed' /\ Copied(w, cache[at[w]])
      <4>1. CASE SecretDone(w) BY <1>0, <2>1, <4>1, DoneKeeps DEF IInv
      <4>2. CASE Conflict(w) /\ ~SecretDone(w)
        BY <1>0, <2>1, <4>2, WriterAssumption DEF Conflict, IInv, WriterTypes, Placed, Copied
      <4> QED BY <3>1, <4>1, <4>2
    <3> QED BY <2>1, <3>2, <3>3, ReadKeeps DEF IInv, TypeOK, WriterTypes, api
  <2> QED BY <2>3, <2>4, <2>5
<1>5. ASSUME NEW w \in Writers, Delete(w) PROVE IInv'
  <2>1. /\ op[w] # None /\ at[w] \in Namespaces BY <1>5, AtSecret DEF Delete
  <2>2. WriterTypes' /\ Placed' /\ Copied(w, None)
    BY <1>0, <1>5, <2>1, DoneKeeps DEF Delete, IInv
  <2>3. CopiesOld' /\ VersionsIdentify'
    BY <1>0, <1>5, <2>1, <2>2 DEF Delete, Copied, IInv, CopiesOld, VersionsIdentify, TypeOK, Placed, WriterTypes
  <2> QED BY <1>5, <2>1, <2>2, <2>3 DEF Delete, IInv, TypeOK, WriterTypes
<1>6. ASSUME NEW w \in Writers, RequestFails(w) PROVE IInv'
  <2>1. /\ op[w] # None /\ at[w] \in Namespaces BY <1>6, AtSecret DEF RequestFails
  <2>2. WriterTypes' /\ Placed' /\ Copied(w, cache[at[w]])
    BY <1>0, <1>6, <2>1, DoneKeeps DEF RequestFails, IInv
  <2>3. CopiesOld' /\ VersionsIdentify'
    BY <1>6, <2>1, <2>2, ReadKeeps DEF RequestFails
  <2>4. failures' \in 0 .. MaxFailures
    BY <1>6, WriterAssumption DEF RequestFails, IInv, TypeOK
  <2> QED BY <1>6, <2>2, <2>3, <2>4 DEF RequestFails, IInv, TypeOK, WriterTypes, api
<1>7. ASSUME NEW w \in Writers, NEW o \in Calls, Call(w, o) PROVE IInv'
  <2>1. o \in Ops /\ Listed(o) \subseteq Namespaces
    BY WriterAssumption DEF Listed, Ops
  <2>2. calls' \in 0 .. MaxCalls BY <1>7, WriterAssumption DEF Call, IInv, TypeOK
  <2>3. WriterTypes' /\ Placed' /\ \A v \in Writers : copy'[v] # None => copy'[v] = copy[v] /\ at'[v] = at[v]
    <3>1. CASE Listed(o) = {} BY <1>0, <1>7, <3>1 DEF Call, writer, IInv, WriterTypes, Placed
    <3>2. CASE Listed(o) # {}
      <4>1. PICK ns \in Listed(o) : /\ TurnTo(w, ns) /\ op' = [op EXCEPT ![w] = o]
                                    /\ todo' = [todo EXCEPT ![w] = Listed(o)]
        BY <1>7, <3>2 DEF Call
      <4> QED BY <1>0, <2>1, <4>1, WriterAssumption, ConfigAssumption
              DEF TurnTo, IInv, WriterTypes, Placed
    <3> QED BY <3>1, <3>2
  <2>4. UNCHANGED <<secret, version, cache, failures>> BY <1>7 DEF Call, api
  <2>5. CopiesOld' /\ VersionsIdentify'
    BY <2>3, <2>4 DEF IInv, CopiesOld, VersionsIdentify
  <2> QED BY <2>2, <2>3, <2>4, <2>5 DEF IInv, TypeOK, WriterTypes
<1>8. ASSUME NEW ns \in Namespaces, Deliver(ns) PROVE IInv'
  BY <1>8 DEF Deliver, writer, IInv, TypeOK, Placed, CopiesOld, VersionsIdentify
<1>9. CASE Restart
  BY <1>9, WriterAssumption DEF Restart, IInv, TypeOK, Placed, CopiesOld, VersionsIdentify
<1>10. CASE UNCHANGED vars
  BY <1>10 DEF vars, IInv, TypeOK, Placed, CopiesOld, VersionsIdentify
<1> QED BY <1>1, <1>2, <1>3, <1>4, <1>5, <1>6, <1>7, <1>8, <1>9, <1>10 DEF Next, Step

\* The inductive invariant holds always.
LEMMA AlwaysIInv == Spec => []IInv
BY InitIInv, NextIInv, PTL DEF Spec

\* Type correctness of the configuration writer, the bounds on attempts,
\* calls and failures included.
THEOREM WriterTypeCorrect == Spec => []TypeOK
<1>1. IInv => TypeOK BY DEF IInv
<1> QED BY <1>1, AlwaysIInv, PTL

\* A resource version stands for one content, through deletions, re-creations,
\* old caches and restarts, for any number of writers and secrets: an update
\* the API server accepts was computed from the content it replaces.
THEOREM VersionsAreContents == Spec => []VersionsIdentify
<1>1. IInv => VersionsIdentify BY DEF IInv
<1> QED BY <1>1, AlwaysIInv, PTL

-----------------------------------------------------------------------------
(* The refinement.  StoreMap and PendingMap are the state of ConfigStore    *)
(* that a state of the writer stands for.                                  *)

StoreMap == [ns \in Namespaces |-> IF secret[ns] = None THEN None ELSE secret[ns].config]
PendingMap == [w \in Writers |-> IF op[w] = None THEN None
                                 ELSE [op |-> op[w], left |-> todo[w]]]

\* The abstract operations are those of BrokerConfig.
LEMMA SameApplied == \A o, c : Store!Applied(o, c) = Applied(o, c)
BY DEF Store!Applied, Applied, Store!EmptyConfig, EmptyConfig

\* A writer in a call is pending, with the secret at hand left to deal with.
LEMMA IsPending ==
  ASSUME IInv, NEW w \in Writers, pc[w] # "idle"
  PROVE  /\ PendingMap[w] # None /\ at[w] \in PendingMap[w].left
         /\ PendingMap[w].op = op[w]
<1>1. [op |-> op[w], left |-> todo[w]] \in [op : Ops, left : SUBSET Namespaces]
  BY AtSecret DEF WriterTypes
<1> QED BY <1>1, AtSecret, WriterAssumption DEF PendingMap

\* Done with the secret at hand: the abstract call is done with it too.
LEMMA DoneRefines ==
  ASSUME IInv, NEW w \in Writers, pc[w] # "idle", SecretDone(w)
  PROVE  Store!DoneWith(w, at[w])
<1>1. /\ WriterTypes /\ op[w] # None /\ at[w] \in todo[w] BY AtSecret
<1>2. CASE todo[w] \ {at[w]} = {}
  <2>1. Return(w) BY <1>2 DEF SecretDone
  <2>2. todo[w] = {at[w]} BY <1>1, <1>2
  <2>3. PendingMap' = [PendingMap EXCEPT ![w] = None]
    BY <1>1, <2>1 DEF Return, PendingMap, WriterTypes
  <2> QED BY <1>1, <2>2, <2>3 DEF Store!DoneWith, PendingMap
<1>3. CASE todo[w] \ {at[w]} # {}
  <2>1. todo' = [todo EXCEPT ![w] = todo[w] \ {at[w]}] /\ op' = op
    BY <1>3 DEF SecretDone
  <2>2. PendingMap' = [PendingMap EXCEPT ![w] = [op |-> op[w], left |-> todo[w] \ {at[w]}]]
    BY <1>1, <2>1 DEF PendingMap, WriterTypes
  <2>3. todo[w] # {at[w]} BY <1>3
  <2>4. PendingMap[w] = [op |-> op[w], left |-> todo[w]] BY <1>1 DEF PendingMap
  <2>5. PendingMap[w].left = todo[w] /\ PendingMap[w].op = op[w] BY <2>4
  <2> QED BY <2>2, <2>3, <2>5 DEF Store!DoneWith, PendingMap
<1> QED BY <1>2, <1>3

\* Reading is a stutter, or the call is done with the secret.
LEMMA DecideRefines ==
  ASSUME IInv, NEW w \in Writers, pc[w] # "idle", NEW s, Decide(w, s)
  PROVE  PendingMap' = PendingMap \/ Store!DoneWith(w, at[w])
<1>1. CASE Skipped(op[w], s.config) BY <1>1, DoneRefines DEF Decide
<1>2. CASE ~Skipped(op[w], s.config) BY <1>2 DEF Decide, PendingMap
<1> QED BY <1>1, <1>2

\* Initial states stand for initial states.
LEMMA InitRefines == Init => Store!SInit
BY DEF Init, Store!SInit

\* Every step of the writer stands for a step of ConfigStore or for none.
LEMMA NextRefines == IInv /\ [Next]_vars => [Store!SNext]_Store!sVars
<1> SUFFICES ASSUME IInv, [Next]_vars PROVE [Store!SNext]_Store!sVars OBVIOUS
\* A step of a pending call, and a step that changes nothing of the store.
<1>a. ASSUME NEW w \in Writers, pc[w] # "idle",
             \/ Store!CreateEmpty(w, at[w])
             \/ Store!Take(w, at[w])
             \/ Store!Leave(w, at[w])
      PROVE  Store!SNext
  <2>1. PendingMap[w] # None /\ at[w] \in PendingMap[w].left BY <1>a, IsPending
  <2>2. \E ns \in PendingMap[w].left : \/ Store!CreateEmpty(w, ns)
                                       \/ Store!Take(w, ns)
                                       \/ Store!Leave(w, ns)
    BY <1>a, <2>1, Zenon
       DEF Store!CreateEmpty, Store!Take, Store!Leave, Store!DoneWith
  <2> QED BY <2>1, <2>2, Zenon DEF Store!SNext, PendingMap
<1>b. ASSUME StoreMap' = StoreMap, PendingMap' = PendingMap
      PROVE  [Store!SNext]_Store!sVars
  BY <1>b DEF Store!sVars, StoreMap, PendingMap
<1>c. ASSUME NEW w \in Writers, pc[w] # "idle", secret' = secret,
             PendingMap' = PendingMap \/ Store!DoneWith(w, at[w])
      PROVE  [Store!SNext]_Store!sVars
  <2>1. StoreMap' = StoreMap BY <1>c DEF StoreMap
  <2>2. CASE PendingMap' = PendingMap BY <1>b, <2>1, <2>2
  <2>3. CASE Store!DoneWith(w, at[w])
    <3>1. Store!Leave(w, at[w]) BY <2>1, <2>3 DEF Store!Leave, StoreMap
    <3> QED BY <1>a, <1>c, <3>1
  <2> QED BY <1>c, <2>2, <2>3
<1>1. ASSUME NEW w \in Writers, Get(w) PROVE [Store!SNext]_Store!sVars
  <2>1. pc[w] # "idle" /\ secret' = secret BY <1>1 DEF Get, api
  <2>2. \/ Decide(w, cache[at[w]]) \/ SecretDone(w)
        \/ op' = op /\ todo' = todo
    BY <1>1 DEF Get
  <2>3. PendingMap' = PendingMap \/ Store!DoneWith(w, at[w])
    BY <2>1, <2>2, DecideRefines, DoneRefines DEF PendingMap
  <2> QED BY <1>c, <2>1, <2>3
<1>2. ASSUME NEW w \in Writers, Create(w) PROVE [Store!SNext]_Store!sVars
  <2>0. pc[w] # "idle" /\ at[w] \in Namespaces BY <1>2, AtSecret DEF Create
  <2>1. CASE secret[at[w]] = None
    <3> DEFINE s == [rv |-> version[at[w]] + 1, config |-> EmptyConfig]
    <3>1. secret' = [secret EXCEPT ![at[w]] = s] /\ Decide(w, s) BY <1>2, <2>1 DEF Create
    <3>2. PendingMap' = PendingMap \/ Store!DoneWith(w, at[w])
      BY <2>0, <3>1, DecideRefines
    <3>3. s # None
      <4>1. s \in Secrets BY <2>0 DEF IInv, TypeOK, Secrets, EmptyConfig, Configs
      <4> QED BY <4>1, WriterAssumption
    <3>4. s.config = EmptyConfig OBVIOUS
    <3> HIDE DEF s
    <3>5. StoreMap' = [StoreMap EXCEPT ![at[w]] = EmptyConfig]
      BY <2>0, <3>1, <3>3, <3>4 DEF StoreMap, IInv, TypeOK
    <3>6. StoreMap[at[w]] = None BY <2>0, <2>1 DEF StoreMap
    <3>7. Store!CreateEmpty(w, at[w])
      BY <3>2, <3>5, <3>6 DEF Store!CreateEmpty, StoreMap, PendingMap, Store!EmptyConfig, EmptyConfig
    <3> QED BY <1>a, <2>0, <3>7
  <2>2. CASE secret[at[w]] # None
    <3>1. secret' = secret /\ op' = op /\ todo' = todo BY <1>2, <2>2 DEF Create
    <3> QED BY <1>b, <3>1 DEF StoreMap, PendingMap
  <2> QED BY <2>1, <2>2
<1>3. ASSUME NEW w \in Writers, ReGet(w) PROVE [Store!SNext]_Store!sVars
  <2>1. pc[w] # "idle" /\ secret' = secret BY <1>3 DEF ReGet, api
  <2>2. Decide(w, cache[at[w]]) \/ SecretDone(w) BY <1>3 DEF ReGet
  <2>3. PendingMap' = PendingMap \/ Store!DoneWith(w, at[w])
    BY <2>1, <2>2, DecideRefines, DoneRefines
  <2> QED BY <1>c, <2>1, <2>3
<1>4. ASSUME NEW w \in Writers, Update(w) PROVE [Store!SNext]_Store!sVars
  <2>0. /\ pc[w] # "idle" /\ at[w] \in Namespaces /\ op[w] \in Ops
        /\ copy[w] \in Secrets /\ op[w].kind # "delete"
    BY <1>4, AtSecret DEF Update, IInv, TypeOK, Placed
  <2>1. CASE Current(w)
    <3>1. SecretDone(w) BY <1>4, <2>1 DEF Update
    <3>2. Store!DoneWith(w, at[w]) BY <2>0, <3>1, DoneRefines
    <3>3. secret[at[w]] # None /\ copy[w] = secret[at[w]]
      BY <1>4, <2>0, <2>1 DEF Current, Update, IInv, VersionsIdentify, Placed
    <3> DEFINE c == Applied(op[w], copy[w].config)
    <3>4. StoreMap[at[w]] # None /\ StoreMap[at[w]] = copy[w].config
      BY <2>0, <3>3, ConfigAssumption DEF StoreMap, Secrets
    <3>5. StoreMap' = [StoreMap EXCEPT ![at[w]] = c]
      <4>1. CASE c = secret[at[w]].config
        <5>1. secret' = secret BY <1>4, <2>1, <4>1 DEF Update
        <5> QED BY <2>0, <3>3, <4>1, <5>1 DEF StoreMap
      <4>2. CASE c # secret[at[w]].config
        <5> DEFINE s == [rv |-> version[at[w]] + 1, config |-> c]
        <5>1. secret' = [secret EXCEPT ![at[w]] = s] BY <1>4, <2>1, <4>2 DEF Update
        <5>2. s # None
          <6>1. c \in Configs BY <2>0, AppliedConfig DEF Secrets
          <6>2. s \in Secrets BY <2>0, <6>1 DEF IInv, TypeOK, Secrets
          <6> QED BY <6>2, WriterAssumption
        <5>3. s.config = c OBVIOUS
        <5> HIDE DEF s, c
        <5> QED BY <2>0, <5>1, <5>2, <5>3 DEF StoreMap, IInv, TypeOK
      <4> QED BY <4>1, <4>2
    <3>6. PendingMap[w].op = op[w] BY <2>0, IsPending
    <3>7. Store!Applied(op[w], StoreMap[at[w]]) = c BY <3>4, SameApplied
    <3> HIDE DEF c
    <3>8. Store!Take(w, at[w])
      BY <2>0, <3>2, <3>4, <3>5, <3>6, <3>7 DEF Store!Take, StoreMap, PendingMap
    <3> QED BY <1>a, <2>0, <3>8
  <2>2. CASE ~Current(w)
    <3>1. secret' = secret /\ (SecretDone(w) \/ Conflict(w)) BY <1>4, <2>2 DEF Update
    <3>2. PendingMap' = PendingMap \/ Store!DoneWith(w, at[w])
      BY <2>0, <3>1, DoneRefines DEF Conflict, PendingMap
    <3> QED BY <1>c, <2>0, <3>1, <3>2
  <2> QED BY <2>1, <2>2
<1>5. ASSUME NEW w \in Writers, Delete(w) PROVE [Store!SNext]_Store!sVars
  <2>0. /\ pc[w] # "idle" /\ at[w] \in Namespaces /\ op[w].kind = "delete"
    BY <1>5, AtSecret DEF Delete, IInv, Placed
  <2>1. Store!DoneWith(w, at[w]) BY <1>5, <2>0, DoneRefines DEF Delete
  <2>2. StoreMap' = [StoreMap EXCEPT ![at[w]] = None]
    BY <1>5, <2>0 DEF Delete, StoreMap, IInv, TypeOK
  <2>3. CASE secret[at[w]] = None
    <3>1. secret' = secret BY <1>5, <2>0, <2>3 DEF Delete, IInv, TypeOK
    <3> QED BY <1>c, <2>0, <2>1, <3>1
  <2>4. CASE secret[at[w]] # None
    <3>1. StoreMap[at[w]] # None
      BY <2>0, <2>4, ConfigAssumption DEF StoreMap, IInv, TypeOK, Secrets
    <3>2. PendingMap[w].op = op[w] BY <2>0, IsPending
    <3>3. Store!Take(w, at[w])
      BY <2>0, <2>1, <2>2, <3>1, <3>2 DEF Store!Take, StoreMap, PendingMap
    <3> QED BY <1>a, <2>0, <3>3
  <2> QED BY <2>3, <2>4
<1>6. ASSUME NEW w \in Writers, RequestFails(w) PROVE [Store!SNext]_Store!sVars
  <2>1. pc[w] # "idle" /\ secret' = secret /\ SecretDone(w)
    BY <1>6 DEF RequestFails, api
  <2> QED BY <1>c, <2>1, DoneRefines
<1>7. ASSUME NEW w \in Writers, NEW o \in Calls, Call(w, o) PROVE [Store!SNext]_Store!sVars
  <2>1. secret' = secret BY <1>7 DEF Call, api
  <2>2. CASE Listed(o) = {}
    <3>1. op' = op /\ todo' = todo BY <1>7, <2>2 DEF Call, writer
    <3> QED BY <1>b, <2>1, <3>1 DEF StoreMap, PendingMap
  <2>3. CASE Listed(o) # {}
    <3>1. op[w] = None /\ op' = [op EXCEPT ![w] = o] /\ todo' = [todo EXCEPT ![w] = Listed(o)]
      BY <1>7, <2>3 DEF Call
    <3>2. Listed(o) \in (SUBSET Store!Targets(o)) \ {{}}
      BY <2>3 DEF Listed, Store!Targets
    <3>3. o \in Ops /\ o # None BY WriterAssumption, ConfigAssumption
    <3>4. PendingMap' = [PendingMap EXCEPT ![w] = [op |-> o, left |-> Listed(o)]]
      BY <3>1, <3>3 DEF PendingMap, IInv, TypeOK
    <3>5. PendingMap[w] = None BY <3>1 DEF PendingMap
    <3>6. Store!Begin(w, o)
      BY <2>1, <3>2, <3>4, <3>5 DEF Store!Begin, StoreMap, PendingMap
    <3>7. o \in Store!Ops BY <3>3 DEF Store!Ops, Ops
    <3> QED BY <3>6, <3>7 DEF Store!SNext
  <2> QED BY <2>2, <2>3
<1>8. ASSUME NEW ns \in Namespaces, Deliver(ns) PROVE [Store!SNext]_Store!sVars
  BY <1>8, <1>b DEF Deliver, writer, StoreMap, PendingMap
<1>9. CASE Restart
  <2>1. secret' = secret /\ op' = [w \in Writers |-> None] BY <1>9 DEF Restart
  <2>2. Store!GiveUp BY <2>1 DEF Store!GiveUp
  <2> QED BY <2>2 DEF Store!SNext
<1>10. CASE UNCHANGED vars
  BY <1>10, <1>b DEF vars, StoreMap, PendingMap
<1> QED BY <1>1, <1>2, <1>3, <1>4, <1>5, <1>6, <1>7, <1>8, <1>9, <1>10 DEF Next, Step

\* The writer implements ConfigStore for any number of writers, secrets and
\* entries: whatever the caches show and whichever requests conflict or fail,
\* a configuration changes by whole operations applied to its latest content.
THEOREM WriterImplementsStore == Spec => WholeOperations
BY AlwaysIInv, InitRefines, NextRefines, PTL DEF Spec, WholeOperations, Store!SSpec
=============================================================================
