------------------------- MODULE ToolRegistryProofs -------------------------
(***************************************************************************)
(* Proofs about ToolRegistry for any number of servers, names and          *)
(* definitions.  Inv says how far a manager is with its pending changes    *)
(* and which managers run; OwnInv adds what distinct names give.           *)
(***************************************************************************)
EXTENDS ToolRegistry, TLAPS

Pending == {"delete", "buildDelete", "storeDelete", "add"}

\* What a manager still has to delete or add fits the place where it is.
Manager(s) ==
  /\ toAdd[s] # {} => mpc[s] \in Pending
  /\ toRemove[s] # {} => mpc[s] = "delete"
  /\ \A n \in toAdd[s] : tools[s][n] # None
  /\ \A n \in toRemove[s] : tools[s][n] = None
  /\ mpc[s] = "done" => tools[s] = Empty
  /\ cancelled[s] = "stopping" => tools[s] = Empty /\ mpc[s] \in Pending \cup {"done"}
  /\ mpc[s] \in {"buildAdd", "storeAdd"} => cancelled[s] # "stopping"

\* A manager that is not registered is done, or its reload waits for it.
Running ==
  /\ rpc = "idle" => toStop = {}
  /\ \A s \in Servers \ mcpServers : s \in toStop \/ mpc[s] = "done"

\* A table that is about to be stored was built from the registered managers.
BuiltRegistered ==
  \A s \in Servers : mpc[s] \in {"storeDelete", "storeAdd"} =>
    \A n \in Names : built[s][n] \in mcpServers \cup {None}

Managers == \A s \in Servers : Manager(s)

Inv == TypeOK /\ Managers /\ Running /\ NoOrphanTools /\ BuiltRegistered /\ RoutesRegistered

-----------------------------------------------------------------------------
LEMMA EmptyList ==
  /\ Empty \in ToolList /\ Empty \in [Names -> Servers \cup {None}]
  /\ Has(Empty) = {}
  /\ \A n \in Names : Empty[n] = None
BY DEF Empty, ToolList, Has

\* An entry of the gateway's registry is not None.
LEMMA EntryIsNotNone ==
  ASSUME NEW s \in Servers, NEW d \in Defs
  PROVE  [owner |-> s, def |-> d] # None
<1>1. [owner |-> s, def |-> d] \in [owner : Servers, def : Defs] OBVIOUS
<1> QED BY <1>1, RegistryAssumption

LEMMA HasSubset == \A l : Has(l) \subseteq Names /\ \A n \in Has(l) : l[n] # None
BY DEF Has

LEMMA ValidList == ASSUME NEW l \in ToolList PROVE ValidateTools(l) \in ToolList
BY DEF ValidateTools, ToolList

LEMMA TypeInit == Init => TypeOK
<1> SUFFICES ASSUME Init PROVE TypeOK OBVIOUS
<1> USE RegistryAssumption, EmptyList
<1>1. changes \in 0 .. MaxChanges /\ failures \in [Servers -> 0 .. MaxFailures]
  BY DEF Init
<1>2. gwTools \in [Names -> [owner : Servers, def : Defs] \cup {None}]
  BY DEF Init, Empty
<1>3. cachedTable \in [Names -> Servers \cup {None}]
  BY DEF Init
<1>4. built \in [Servers -> [Names -> Servers \cup {None}]]
  BY DEF Init
<1>5. tools \in [Servers -> ToolList] /\ fetched \in [Servers -> ToolList]
  BY DEF Init
<1> QED BY <1>1, <1>2, <1>3, <1>4, <1>5 DEF Init, TypeOK

LEMMA InvInit == Init => Inv
<1> SUFFICES ASSUME Init PROVE Inv OBVIOUS
<1>1. TypeOK BY TypeInit
<1>2. Managers
  BY DEF Init, Managers, Manager, Pending
<1>3. Running BY DEF Init, Running
<1>4. NoOrphanTools BY EmptyList DEF Init, NoOrphanTools
<1>5. BuiltRegistered BY DEF Init, BuiltRegistered
<1>6. RoutesRegistered BY EmptyList DEF Init, RoutesRegistered
<1> QED BY <1>1, <1>2, <1>3, <1>4, <1>5, <1>6 DEF Inv

-----------------------------------------------------------------------------
(* Steps of one manager *)

\* Nothing that Manager(t) is about changes.
Same(t) ==
  /\ tools'[t] = tools[t] /\ toAdd'[t] = toAdd[t] /\ toRemove'[t] = toRemove[t]
  /\ mpc'[t] = mpc[t] /\ cancelled'[t] = cancelled[t]

\* What is to be shown of a step of manager s that leaves the registry's and the
\* reload's variables alone.
LEMMA ManagersLocal ==
  ASSUME Managers, NEW s \in Servers, \A t \in Servers \ {s} : Same(t), Manager(s)'
  PROVE  Managers'
<1> SUFFICES ASSUME NEW t \in Servers, t # s PROVE Manager(t)'
  BY DEF Managers
<1>1. Manager(t) /\ Same(t) BY DEF Managers
<1> QED BY <1>1 DEF Manager, Same

LEMMA OrphansLocal ==
  ASSUME TypeOK, NoOrphanTools, UNCHANGED gwTools, NEW s \in Servers,
         \A t \in Servers \ {s} : Same(t), mpc'[s] # "done",
         \A n \in Names : tools[s][n] # None \/ n \in toRemove[s] =>
                          tools'[s][n] # None \/ n \in toRemove'[s]
  PROVE  NoOrphanTools'
<1> SUFFICES ASSUME NEW n \in Names, gwTools[n] # None, NEW t \in Servers,
                    t = gwTools[n].owner
             PROVE  mpc'[t] # "done" /\ (tools'[t][n] # None \/ n \in toRemove'[t])
  BY DEF TypeOK, NoOrphanTools
<1>1. mpc[t] # "done" /\ (tools[t][n] # None \/ n \in toRemove[t])
  BY DEF NoOrphanTools
<1> QED BY <1>1 DEF Same

LEMMA RunningLocal ==
  ASSUME Running, UNCHANGED <<mcpServers, rpc, toStop>>, NEW s \in Servers,
         \A t \in Servers \ {s} : Same(t), mpc[s] = "done" => mpc'[s] = "done"
  PROVE  Running'
BY DEF Running, Same

LEMMA BuiltLocal ==
  ASSUME BuiltRegistered, UNCHANGED <<mcpServers, built>>, NEW s \in Servers,
         \A t \in Servers \ {s} : Same(t),
         mpc'[s] \in {"storeDelete", "storeAdd"} => mpc'[s] = mpc[s]
  PROVE  BuiltRegistered'
BY DEF BuiltRegistered, Same

LEMMA RemoveAllType ==
  ASSUME TypeOK, NEW s \in Servers, removeAllTools(s)
  PROVE  /\ tools' \in [Servers -> ToolList]
         /\ toAdd' \in [Servers -> SUBSET Names] /\ toRemove' \in [Servers -> SUBSET Names]
         /\ mpc' \in [Servers -> {"select", "diff", "delete", "buildDelete", "storeDelete",
                                  "add", "buildAdd", "storeAdd", "done"}]
<1>1. tools' \in [Servers -> ToolList]
  BY EmptyList DEF TypeOK, removeAllTools
<1>2. toRemove' \in [Servers -> SUBSET Names]
  <2>1. Has(tools[s]) \in SUBSET Names BY DEF Has
  <2> QED BY <2>1 DEF TypeOK, removeAllTools
<1> QED BY <1>1, <1>2 DEF TypeOK, removeAllTools

\* removeAllTools between two events: every name becomes a pending deletion.
LEMMA RemoveAllLocal ==
  ASSUME TypeOK, Managers, NEW s \in Servers, mpc[s] \in {"select", "diff"}, removeAllTools(s),
         \A t \in Servers \ {s} : cancelled'[t] = cancelled[t]
  PROVE  /\ \A t \in Servers \ {s} : Same(t)
         /\ Manager(s)'
         /\ mpc'[s] = "delete"
         /\ \A n \in Names : tools[s][n] # None \/ n \in toRemove[s] =>
                             tools'[s][n] # None \/ n \in toRemove'[s]
<1>1. \A t \in Servers \ {s} : Same(t)
  BY DEF TypeOK, removeAllTools, Same
<1>2. /\ tools'[s] = Empty /\ toAdd'[s] = toAdd[s] /\ toRemove'[s] = Has(tools[s])
      /\ mpc'[s] = "delete"
  BY DEF TypeOK, removeAllTools
<1>3. toAdd[s] = {} /\ toRemove[s] = {}
  BY DEF Managers, Manager, Pending
<1>4. \A n \in Has(tools[s]) : n \in Names BY DEF Has
<1>5. Manager(s)'
  BY <1>2, <1>3, <1>4, EmptyList DEF Manager, Pending
<1>6. \A n \in Names : tools[s][n] # None => n \in Has(tools[s]) BY DEF Has
<1> QED BY <1>1, <1>2, <1>3, <1>5, <1>6

LEMMA RemoveAllInv ==
  ASSUME Inv, TypeOK', NEW s \in Servers, mpc[s] \in {"select", "diff"}, removeAllTools(s),
         \A t \in Servers \ {s} : cancelled'[t] = cancelled[t],
         UNCHANGED <<gwTools, cachedTable, mcpServers, rpc, toStop, built>>
  PROVE  Inv'
<1>1. TypeOK /\ Managers /\ Running /\ NoOrphanTools /\ BuiltRegistered BY DEF Inv
<1>2. /\ \A t \in Servers \ {s} : Same(t)
      /\ Manager(s)'
      /\ mpc'[s] = "delete"
      /\ \A n \in Names : tools[s][n] # None \/ n \in toRemove[s] =>
                          tools'[s][n] # None \/ n \in toRemove'[s]
  BY <1>1, RemoveAllLocal
<1>3. Managers' BY <1>1, <1>2, ManagersLocal
<1>4. Running' BY <1>1, <1>2, RunningLocal
<1>5. NoOrphanTools' BY <1>1, <1>2, OrphansLocal
<1>6. BuiltRegistered' BY <1>1, <1>2, BuiltLocal
<1>7. RoutesRegistered' BY DEF Inv, RoutesRegistered
<1> QED BY <1>3, <1>4, <1>5, <1>6, <1>7 DEF Inv

\* Steps that only change what an upstream lists, or a failure counter.
LEMMA QuietInv ==
  ASSUME Inv, TypeOK',
         UNCHANGED <<gwTools, cachedTable, mcpServers, rpc, toStop, mpc, tools, toAdd,
                     toRemove, built, cancelled>>
  PROVE  Inv'
<1>1. Managers' BY DEF Inv, Managers, Manager
<1>2. Running' BY DEF Inv, Running
<1>3. NoOrphanTools' BY DEF Inv, NoOrphanTools
<1>4. BuiltRegistered' BY DEF Inv, BuiltRegistered
<1>5. RoutesRegistered' BY DEF Inv, RoutesRegistered
<1> QED BY <1>1, <1>2, <1>3, <1>4, <1>5 DEF Inv

LEMMA UpstreamChangeInv ==
  ASSUME Inv, NEW s \in Servers, NEW l \in ToolList, UpstreamChange(s, l)
  PROVE  Inv'
<1>1. changes' \in 0 .. MaxChanges
  BY RegistryAssumption DEF Inv, TypeOK, UpstreamChange
<1>2. upstreamTools' \in [Servers -> ToolList]
  BY DEF Inv, TypeOK, UpstreamChange
<1>3. TypeOK' BY <1>1, <1>2 DEF Inv, TypeOK, UpstreamChange, reloadVars
<1> QED BY <1>3, QuietInv DEF UpstreamChange, reloadVars

LEMMA ZeroFailures ==
  ASSUME TypeOK, NEW s \in Servers, failures' = [failures EXCEPT ![s] = 0]
  PROVE  failures' \in [Servers -> 0 .. MaxFailures]
<1>1. 0 \in 0 .. MaxFailures BY RegistryAssumption
<1> QED BY <1>1 DEF TypeOK

LEMMA manageDisabledInv ==
  ASSUME Inv, NEW s \in Servers, manageDisabled(s)
  PROVE  Inv'
<1>1. TypeOK /\ removeAllTools(s) BY DEF Inv, manageDisabled
<1>2. failures' \in [Servers -> 0 .. MaxFailures]
  BY <1>1, ZeroFailures DEF manageDisabled
<1>3. TypeOK'
  BY <1>1, <1>2, RemoveAllType DEF TypeOK, manageDisabled, upVars, reloadVars
<1> QED BY <1>1, <1>3, RemoveAllInv DEF manageDisabled, reloadVars

LEMMA handleConnectionFailureInv ==
  ASSUME Inv, NEW s \in Servers, handleConnectionFailure(s)
  PROVE  Inv'
<1>1. TypeOK BY DEF Inv
<1>2. failures' \in [Servers -> 0 .. MaxFailures]
  <2>1. \A k \in 0 .. MaxFailures : (IF k < MaxFailures THEN k + 1 ELSE k) \in 0 .. MaxFailures
    BY RegistryAssumption
  <2>2. failures[s] \in 0 .. MaxFailures BY <1>1 DEF TypeOK
  <2> QED BY <1>1, <2>1, <2>2 DEF TypeOK, handleConnectionFailure
<1>3. CASE removeAllTools(s)
  <2>1. TypeOK'
    BY <1>1, <1>2, <1>3, RemoveAllType DEF TypeOK, handleConnectionFailure, upVars, reloadVars
  <2> QED BY <1>3, <2>1, RemoveAllInv DEF handleConnectionFailure, reloadVars
<1>4. CASE UNCHANGED <<tools, toRemove, mpc, toAdd>>
  <2>1. TypeOK'
    BY <1>1, <1>2, <1>4 DEF TypeOK, handleConnectionFailure, upVars, reloadVars
  <2> QED BY <1>4, <2>1, QuietInv DEF handleConnectionFailure, reloadVars
<1> QED BY <1>3, <1>4 DEF handleConnectionFailure

LEMMA manageKeepsToolsInv ==
  ASSUME Inv, NEW s \in Servers, manageKeepsTools(s)
  PROVE  Inv'
<1>1. TypeOK BY DEF Inv
<1>2. failures' \in [Servers -> 0 .. MaxFailures]
  BY <1>1, ZeroFailures DEF manageKeepsTools
<1>3. TypeOK' BY <1>1, <1>2 DEF TypeOK, manageKeepsTools, upVars, reloadVars
<1> QED BY <1>3, QuietInv DEF manageKeepsTools, reloadVars

\* A step of manager s that only moves it on between events.
LEMMA MoveInv ==
  ASSUME Inv, TypeOK', NEW s \in Servers, NEW pc \in {"select", "diff"},
         mpc[s] \in {"select", "diff"}, mpc' = [mpc EXCEPT ![s] = pc],
         UNCHANGED <<gwTools, cachedTable, mcpServers, rpc, toStop, tools, toAdd,
                     toRemove, built, cancelled>>
  PROVE  Inv'
<1>1. TypeOK /\ Managers /\ Running /\ NoOrphanTools /\ BuiltRegistered BY DEF Inv
<1>2. mpc'[s] = pc /\ \A t \in Servers \ {s} : Same(t) BY <1>1 DEF TypeOK, Same
<1>3. Manager(s)' BY <1>1, <1>2 DEF Managers, Manager, Pending
<1>4. Managers' BY <1>1, <1>2, <1>3, ManagersLocal
<1>5. Running' BY <1>1, <1>2, RunningLocal
<1>6. NoOrphanTools' BY <1>1, <1>2, OrphansLocal
<1>7. BuiltRegistered' BY <1>1, <1>2, BuiltLocal
<1>8. RoutesRegistered' BY DEF Inv, RoutesRegistered
<1> QED BY <1>4, <1>5, <1>6, <1>7, <1>8 DEF Inv

LEMMA getToolsInv ==
  ASSUME Inv, NEW s \in Servers, getTools(s)
  PROVE  Inv'
<1>1. TypeOK BY DEF Inv
<1>2. failures' \in [Servers -> 0 .. MaxFailures]
  BY <1>1, ZeroFailures DEF getTools
<1>3. fetched' \in [Servers -> ToolList] BY <1>1 DEF TypeOK, getTools
<1>4. TypeOK' BY <1>1, <1>2, <1>3 DEF TypeOK, getTools, upVars, reloadVars
<1> QED BY <1>4, MoveInv DEF getTools, reloadVars

\* A new list is committed: the additions are listed, the deletions are not.
LEMMA manageToolsInv ==
  ASSUME Inv, NEW s \in Servers, manageTools(s)
  PROVE  Inv'
<1> DEFINE valid == ValidateTools(fetched[s])
           diff == diffTools(tools[s], valid)
<1>1. TypeOK /\ Managers /\ Running /\ NoOrphanTools /\ BuiltRegistered BY DEF Inv
<1>2. valid \in ToolList BY <1>1, ValidList DEF TypeOK
<1>3. diff.add = Has(valid) \ Has(tools[s]) /\ diff.remove = Has(tools[s]) \ Has(valid)
  BY DEF diffTools
<1>4. diff.add \in SUBSET Names /\ diff.remove \in SUBSET Names
  BY <1>3 DEF Has
<1>5. /\ mpc[s] = "diff"
      /\ UNCHANGED <<upVars, gwTools, cachedTable, reloadVars, fetched, built, failures,
                     cancelled>>
  BY DEF manageTools
<1>6. CASE removeAllTools(s)
  <2>1. TypeOK' BY <1>1, <1>5, <1>6, RemoveAllType DEF TypeOK, upVars, reloadVars
  <2> QED BY <1>5, <1>6, <2>1, RemoveAllInv DEF reloadVars
<1>7. CASE mpc' = [mpc EXCEPT ![s] = "select"] /\ UNCHANGED <<tools, toAdd, toRemove>>
  <2>1. TypeOK' BY <1>1, <1>5, <1>7 DEF TypeOK, upVars, reloadVars
  <2> QED BY <1>5, <1>7, <2>1, MoveInv DEF reloadVars
<1>8. CASE /\ tools' = [tools EXCEPT ![s] = valid]
           /\ toAdd' = [toAdd EXCEPT ![s] = diff.add]
           /\ toRemove' = [toRemove EXCEPT ![s] = diff.remove]
           /\ mpc' = [mpc EXCEPT ![s] = "delete"]
  <2> HIDE DEF valid, diff
  <2>1. TypeOK'
    BY <1>1, <1>2, <1>4, <1>5, <1>8 DEF TypeOK, upVars, reloadVars
  <2>2. \A t \in Servers \ {s} : Same(t) BY <1>1, <1>5, <1>8 DEF TypeOK, Same
  <2>3. /\ tools'[s] = valid /\ toAdd'[s] = diff.add /\ toRemove'[s] = diff.remove
        /\ mpc'[s] = "delete" /\ cancelled'[s] # "stopping"
    BY <1>1, <1>5, <1>8 DEF TypeOK, Managers, Manager, Pending
  <2>4. Manager(s)' BY <1>3, <2>3 DEF Manager, Pending, Has
  <2>5. Managers' BY <1>1, <2>2, <2>4, ManagersLocal
  <2>6. Running' BY <1>1, <1>5, <2>2, <2>3, RunningLocal DEF reloadVars
  <2>7. \A n \in Names : tools[s][n] # None \/ n \in toRemove[s] =>
                         tools'[s][n] # None \/ n \in toRemove'[s]
    BY <1>1, <1>3, <1>5, <2>3 DEF Has, Managers, Manager
  <2>8. NoOrphanTools' BY <1>1, <1>5, <2>2, <2>3, <2>7, OrphansLocal
  <2>9. BuiltRegistered' BY <1>1, <1>5, <2>2, <2>3, BuiltLocal DEF reloadVars
  <2>10. RoutesRegistered' BY <1>5 DEF Inv, RoutesRegistered, reloadVars
  <2> QED BY <2>1, <2>5, <2>6, <2>8, <2>9, <2>10 DEF Inv
<1> QED BY <1>6, <1>7, <1>8 DEF manageTools

\* DeleteTools: entries go, none comes, and none that is listed under s goes.
LEMMA DeleteToolsInv ==
  ASSUME Inv, NEW s \in Servers, DeleteTools(s)
  PROVE  Inv'
<1>1. TypeOK /\ Managers /\ Running /\ NoOrphanTools /\ BuiltRegistered BY DEF Inv
<1>2. /\ mpc'[s] \in {"add", "buildDelete"} /\ toRemove'[s] = {}
      /\ tools'[s] = tools[s] /\ toAdd'[s] = toAdd[s] /\ cancelled'[s] = cancelled[s]
      /\ \A t \in Servers \ {s} : Same(t)
  BY <1>1 DEF TypeOK, DeleteTools, Same
<1>3. /\ \A n \in Names : gwTools'[n] = IF n \in toRemove[s] THEN None ELSE gwTools[n]
      /\ gwTools' \in [Names -> [owner : Servers, def : Defs] \cup {None}]
  BY <1>1 DEF TypeOK, DeleteTools
<1>4. TypeOK' BY <1>1, <1>3 DEF TypeOK, DeleteTools, upVars, reloadVars
<1>5. Manager(s)' BY <1>1, <1>2 DEF Managers, Manager, Pending, DeleteTools
<1>6. Managers' BY <1>1, <1>2, <1>5, ManagersLocal
<1>7. Running' BY <1>1, <1>2, RunningLocal DEF DeleteTools, reloadVars
<1>8. NoOrphanTools'
  <2> SUFFICES ASSUME NEW n \in Names, gwTools'[n] # None
               PROVE  LET t == gwTools'[n].owner
                      IN mpc'[t] # "done" /\ (tools'[t][n] # None \/ n \in toRemove'[t])
    BY DEF NoOrphanTools
  <2>1. n \notin toRemove[s] /\ gwTools'[n] = gwTools[n] BY <1>3
  <2>2. PICK t \in Servers : t = gwTools[n].owner BY <1>1, <2>1 DEF TypeOK
  <2>3. mpc[t] # "done" /\ (tools[t][n] # None \/ n \in toRemove[t])
    BY <1>1, <2>1, <2>2 DEF NoOrphanTools
  <2> QED BY <1>2, <2>1, <2>2, <2>3 DEF Same
<1>9. BuiltRegistered' BY <1>1, <1>2, BuiltLocal DEF DeleteTools, reloadVars
<1>10. RoutesRegistered' BY DEF Inv, RoutesRegistered, DeleteTools, reloadVars
<1> QED BY <1>4, <1>6, <1>7, <1>8, <1>9, <1>10 DEF Inv

\* AddTools: what is added is listed, and a manager that is stopping adds nothing.
LEMMA AddToolsInv ==
  ASSUME Inv, NEW s \in Servers, AddTools(s)
  PROVE  Inv'
<1>1. TypeOK /\ Managers /\ Running /\ NoOrphanTools /\ BuiltRegistered BY DEF Inv
<1>2. /\ mpc'[s] = IF toAdd[s] = {} THEN Return(s) ELSE "buildAdd"
      /\ toAdd'[s] = {} /\ mpc[s] = "add"
      /\ tools'[s] = tools[s] /\ toRemove'[s] = toRemove[s] /\ cancelled'[s] = cancelled[s]
      /\ \A t \in Servers \ {s} : Same(t)
  BY <1>1 DEF TypeOK, AddTools, Same
<1>3. toRemove[s] = {} /\ \A n \in toAdd[s] : n \in Names /\ tools[s][n] \in Defs
  <2>1. Manager(s) BY <1>1 DEF Managers
  <2>2. tools[s] \in [Names -> Defs \cup {None}] /\ toAdd[s] \in SUBSET Names
    BY <1>1 DEF TypeOK, ToolList
  <2> QED BY <1>2, <2>1, <2>2 DEF Manager
<1>4. \A n \in Names : gwTools'[n] = IF n \in toAdd[s] THEN [owner |-> s, def |-> tools[s][n]]
                                     ELSE gwTools[n]
  BY DEF AddTools
<1>5. gwTools' \in [Names -> [owner : Servers, def : Defs] \cup {None}]
  <2>1. \A n \in toAdd[s] : [owner |-> s, def |-> tools[s][n]] \in [owner : Servers, def : Defs]
    BY <1>3
  <2>2. \A n \in Names : gwTools[n] \in [owner : Servers, def : Defs] \cup {None}
    BY <1>1 DEF TypeOK
  <2> QED BY <2>1, <2>2 DEF AddTools
<1>6. mpc' \in [Servers -> {"select", "diff", "delete", "buildDelete", "storeDelete",
                            "add", "buildAdd", "storeAdd", "done"}]
  BY <1>1 DEF TypeOK, AddTools, Return
<1>7. TypeOK' BY <1>1, <1>5, <1>6 DEF TypeOK, AddTools, upVars, reloadVars
<1>8. mpc'[s] = "done" => tools[s] = Empty /\ cancelled[s] = "stopping"
  BY <1>1, <1>2 DEF Managers, Manager, Return
<1>9. Manager(s)'
  <2>1. Manager(s) BY <1>1 DEF Managers
  <2>2. CASE toAdd[s] = {}
    BY <1>2, <1>3, <2>1, <2>2 DEF Manager, Pending, Return
  <2>3. CASE toAdd[s] # {}
    <3>1. PICK n \in toAdd[s] : TRUE BY <2>3
    <3>2. cancelled[s] # "stopping" /\ tools[s] # Empty
      BY <1>3, <2>1, <3>1, EmptyList DEF Manager
    <3> QED BY <1>2, <1>3, <2>1, <2>3, <3>2 DEF Manager, Pending
  <2> QED BY <2>2, <2>3
<1>10. Managers' BY <1>1, <1>2, <1>9, ManagersLocal
<1>11. Running' BY <1>1, <1>2, RunningLocal DEF AddTools, reloadVars
<1>12. NoOrphanTools'
  <2> SUFFICES ASSUME NEW n \in Names, gwTools'[n] # None
               PROVE  LET t == gwTools'[n].owner
                      IN mpc'[t] # "done" /\ (tools'[t][n] # None \/ n \in toRemove'[t])
    BY DEF NoOrphanTools
  <2>1. CASE n \in toAdd[s]
    <3>1. gwTools'[n] = [owner |-> s, def |-> tools[s][n]] BY <1>4, <2>1
    <3>2. tools[s][n] # None BY <1>1, <2>1 DEF Managers, Manager
    <3>3. mpc'[s] # "done" BY <1>2, <2>1
    <3>4. gwTools'[n].owner = s BY <3>1
    <3> QED BY <1>2, <3>2, <3>3, <3>4
  <2>2. CASE n \notin toAdd[s]
    <3>1. gwTools'[n] = gwTools[n] BY <1>4, <2>2
    <3>2. PICK t \in Servers : t = gwTools[n].owner BY <1>1, <3>1 DEF TypeOK
    <3>3. mpc[t] # "done" /\ (tools[t][n] # None \/ n \in toRemove[t])
      BY <1>1, <3>1, <3>2 DEF NoOrphanTools
    <3>4. CASE t = s
      <4>1. tools[s][n] # None BY <1>3, <3>3, <3>4
      <4>2. mpc'[s] # "done" BY <1>8, <4>1, EmptyList
      <4> QED BY <1>2, <3>1, <3>2, <3>4, <4>1, <4>2
    <3>5. CASE t # s BY <1>2, <3>1, <3>2, <3>3, <3>5 DEF Same
    <3> QED BY <3>4, <3>5
  <2> QED BY <2>1, <2>2
<1>13. BuiltRegistered'
  <2>1. UNCHANGED <<mcpServers, built>> BY DEF AddTools, reloadVars
  <2>2. mpc'[s] \notin {"storeDelete", "storeAdd"} BY <1>2 DEF Return
  <2> QED BY <1>1, <1>2, <2>1, <2>2, BuiltLocal
<1>14. RoutesRegistered' BY DEF Inv, RoutesRegistered, AddTools, reloadVars
<1> QED BY <1>7, <1>10, <1>11, <1>12, <1>13, <1>14 DEF Inv

LEMMA TablesType ==
  ASSUME NEW S \in SUBSET Servers, NEW t \in RoutingTables(S)
  PROVE  /\ t \in [Names -> Servers \cup {None}]
         /\ \A n \in Names : t[n] \in S \cup {None}
BY DEF RoutingTables

LEMMA buildRoutingTableInv ==
  ASSUME Inv, NEW s \in Servers, buildRoutingTable(s)
  PROVE  Inv'
<1>1. TypeOK /\ Managers /\ Running /\ NoOrphanTools /\ BuiltRegistered BY DEF Inv
<1>2. PICK t \in RoutingTables(mcpServers) : built' = [built EXCEPT ![s] = t]
  BY DEF buildRoutingTable
<1>3. /\ t \in [Names -> Servers \cup {None}]
      /\ \A n \in Names : t[n] \in mcpServers \cup {None}
  BY <1>1, TablesType DEF TypeOK
<1>4. built' \in [Servers -> [Names -> Servers \cup {None}]]
  BY <1>1, <1>2, <1>3 DEF TypeOK
<1>5. mpc[s] \in {"buildDelete", "buildAdd"}
      /\ mpc'[s] = IF mpc[s] = "buildDelete" THEN "storeDelete" ELSE "storeAdd"
  BY <1>1 DEF TypeOK, buildRoutingTable
<1>6. \A u \in Servers \ {s} : Same(u) BY <1>1 DEF TypeOK, buildRoutingTable, Same
<1>7. TypeOK'
  <2>1. mpc' \in [Servers -> {"select", "diff", "delete", "buildDelete", "storeDelete",
                              "add", "buildAdd", "storeAdd", "done"}]
    BY <1>1 DEF TypeOK, buildRoutingTable
  <2> QED BY <1>1, <1>4, <2>1 DEF TypeOK, buildRoutingTable, upVars, reloadVars
<1>8. Manager(s)'
  <2>1. Manager(s) BY <1>1 DEF Managers
  <2> QED BY <1>5, <2>1 DEF Manager, Pending, buildRoutingTable
<1>9. Managers' BY <1>1, <1>6, <1>8, ManagersLocal
<1>10. Running' BY <1>1, <1>5, <1>6, RunningLocal DEF buildRoutingTable, reloadVars
<1>11. NoOrphanTools' BY <1>1, <1>5, <1>6, OrphansLocal DEF buildRoutingTable
<1>12. BuiltRegistered'
  <2> SUFFICES ASSUME NEW u \in Servers, mpc'[u] \in {"storeDelete", "storeAdd"},
                      NEW n \in Names
               PROVE  built'[u][n] \in mcpServers \cup {None}
    BY DEF BuiltRegistered, buildRoutingTable, reloadVars
  <2>1. CASE u = s BY <1>1, <1>2, <1>3, <2>1 DEF TypeOK
  <2>2. CASE u # s
    BY <1>1, <1>2, <1>6, <2>2 DEF TypeOK, BuiltRegistered, Same
  <2> QED BY <2>1, <2>2
<1>13. RoutesRegistered' BY DEF Inv, RoutesRegistered, buildRoutingTable, reloadVars
<1> QED BY <1>7, <1>9, <1>10, <1>11, <1>12, <1>13 DEF Inv


\* The table that is stored was built from managers that are still registered.
LEMMA refreshRoutingTableInv ==
  ASSUME Inv, NEW s \in Servers, refreshRoutingTable(s)
  PROVE  Inv'
<1>1. TypeOK /\ Managers /\ Running /\ NoOrphanTools /\ BuiltRegistered BY DEF Inv
<1>2. /\ mpc[s] \in {"storeDelete", "storeAdd"}
      /\ mpc'[s] = IF mpc[s] = "storeDelete" THEN "add" ELSE Return(s)
      /\ \A u \in Servers \ {s} : Same(u)
  BY <1>1 DEF TypeOK, refreshRoutingTable, Same
<1>3. Manager(s) BY <1>1 DEF Managers
<1>4. mpc'[s] \in {"add", "select"} /\ (mpc'[s] = "add" => mpc[s] = "storeDelete")
  BY <1>2, <1>3 DEF Manager, Return
<1>5. TypeOK'
  <2>1. mpc' \in [Servers -> {"select", "diff", "delete", "buildDelete", "storeDelete",
                              "add", "buildAdd", "storeAdd", "done"}]
    BY <1>1 DEF TypeOK, refreshRoutingTable, Return
  <2>2. built' \in [Servers -> [Names -> Servers \cup {None}]]
    BY <1>1, EmptyList DEF TypeOK, refreshRoutingTable
  <2>3. cachedTable' \in [Names -> Servers \cup {None}]
    BY <1>1 DEF TypeOK, refreshRoutingTable
  <2> QED BY <1>1, <2>1, <2>2, <2>3 DEF TypeOK, refreshRoutingTable, upVars, reloadVars
<1>6. Manager(s)'
  BY <1>2, <1>3, <1>4 DEF Manager, Pending, refreshRoutingTable, Return
<1>7. Managers' BY <1>1, <1>2, <1>6, ManagersLocal
<1>8. Running' BY <1>1, <1>2, RunningLocal DEF refreshRoutingTable, reloadVars
<1>9. NoOrphanTools' BY <1>1, <1>2, <1>4, OrphansLocal DEF refreshRoutingTable
<1>10. BuiltRegistered'
  <2> SUFFICES ASSUME NEW u \in Servers, mpc'[u] \in {"storeDelete", "storeAdd"},
                      NEW n \in Names
               PROVE  built'[u][n] \in mcpServers \cup {None}
    BY DEF BuiltRegistered, refreshRoutingTable, reloadVars
  <2>1. u # s BY <1>4
  <2> QED BY <1>1, <1>2, <2>1 DEF TypeOK, BuiltRegistered, Same, refreshRoutingTable
<1>11. RoutesRegistered'
  BY <1>1, <1>2 DEF BuiltRegistered, RoutesRegistered, refreshRoutingTable, reloadVars
<1> QED BY <1>5, <1>7, <1>8, <1>9, <1>10, <1>11 DEF Inv

LEMMA StopCancelInv ==
  ASSUME Inv, NEW s \in Servers, StopCancel(s)
  PROVE  Inv'
<1>1. TypeOK /\ Managers /\ Running /\ NoOrphanTools /\ BuiltRegistered BY DEF Inv
<1>2. TypeOK' BY <1>1 DEF TypeOK, StopCancel, upVars, reloadVars
<1>3. cancelled'[s] = "cancelled" /\ \A t \in Servers \ {s} : Same(t)
  BY <1>1 DEF TypeOK, StopCancel, Same
<1>4. Manager(s) BY <1>1 DEF Managers
<1>5. Manager(s)' BY <1>3, <1>4 DEF Manager, StopCancel
<1>6. Managers' BY <1>1, <1>3, <1>5, ManagersLocal
<1>7. Running' BY <1>1 DEF Running, StopCancel, reloadVars
<1>8. NoOrphanTools' BY <1>1 DEF NoOrphanTools, StopCancel
<1>9. BuiltRegistered' BY <1>1 DEF BuiltRegistered, StopCancel, reloadVars
<1>10. RoutesRegistered' BY DEF Inv, RoutesRegistered, StopCancel, reloadVars
<1> QED BY <1>2, <1>6, <1>7, <1>8, <1>9, <1>10 DEF Inv

LEMMA LoopCancelledInv ==
  ASSUME Inv, NEW s \in Servers, LoopCancelled(s)
  PROVE  Inv'
<1>1. TypeOK /\ removeAllTools(s) BY DEF Inv, LoopCancelled
<1>2. cancelled' \in [Servers -> {"no", "cancelled", "stopping"}]
  BY <1>1 DEF TypeOK, LoopCancelled
<1>3. TypeOK'
  BY <1>1, <1>2, RemoveAllType DEF TypeOK, LoopCancelled, upVars, reloadVars
<1>4. \A t \in Servers \ {s} : cancelled'[t] = cancelled[t]
  BY <1>1 DEF TypeOK, LoopCancelled
<1> QED BY <1>1, <1>3, <1>4, RemoveAllInv DEF LoopCancelled, reloadVars

-----------------------------------------------------------------------------
(* Steps of a reload: no table refresh is under way in its critical sections *)

LEMMA deregisterInv ==
  ASSUME Inv, NEW stale \in SUBSET Servers, deregisterStaleManagers(stale)
  PROVE  Inv'
<1> USE DEF deregisterStaleManagers, upVars
<1>1. TypeOK /\ Managers /\ Running /\ NoOrphanTools BY DEF Inv
<1>2. TypeOK' BY <1>1 DEF TypeOK
<1>3. Managers' BY <1>1 DEF Managers, Manager
<1>4. Running' BY <1>1 DEF Running
<1>5. NoOrphanTools' BY <1>1 DEF NoOrphanTools
<1>6. BuiltRegistered' BY DEF BuiltRegistered, WriteLock
<1>7. RoutesRegistered' BY DEF RoutesRegistered
<1> QED BY <1>2, <1>3, <1>4, <1>5, <1>6, <1>7 DEF Inv

LEMMA startManagersInv ==
  ASSUME Inv, NEW new \in SUBSET Servers, NEW k \in [Servers -> Kinds], startManagers(new, k)
  PROVE  Inv'
<1>1. TypeOK /\ Managers /\ Running /\ NoOrphanTools BY DEF Inv
<1>2. \A s \in new : mpc[s] = "done" BY <1>1 DEF Running, startManagers
<1>3. \A s \in Servers : /\ mpc'[s] = IF s \in new THEN "select" ELSE mpc[s]
                         /\ cancelled'[s] = IF s \in new THEN "no" ELSE cancelled[s]
                         /\ tools'[s] = tools[s] /\ toAdd'[s] = toAdd[s]
                         /\ toRemove'[s] = toRemove[s] /\ built'[s] = built[s]
  BY DEF startManagers
<1>4. mcpServers \cup new \in SUBSET Servers BY <1>1 DEF TypeOK
<1>5. PICK t \in RoutingTables(mcpServers \cup new) : cachedTable' = t BY DEF startManagers
<1>6. /\ t \in [Names -> Servers \cup {None}]
      /\ \A n \in Names : t[n] \in mcpServers \cup new \cup {None}
  BY <1>4, TablesType
<1>7. TypeOK'
  <2>1. kind' \in [Servers -> {"enabled", "disabled", "userSpecific"}]
    BY <1>1, RegistryAssumption DEF TypeOK, startManagers
  <2>2. /\ mpc' \in [Servers -> {"select", "diff", "delete", "buildDelete", "storeDelete",
                                 "add", "buildAdd", "storeAdd", "done"}]
        /\ cancelled' \in [Servers -> {"no", "cancelled", "stopping"}]
    BY <1>1 DEF TypeOK, startManagers
  <2>3. failures' \in [Servers -> 0 .. MaxFailures]
    <3>1. 0 \in 0 .. MaxFailures BY RegistryAssumption
    <3> QED BY <1>1, <3>1 DEF TypeOK, startManagers
  <2>4. fetched' \in [Servers -> ToolList] BY <1>1, EmptyList DEF TypeOK, startManagers
  <2>5. cachedTable' \in [Names -> Servers \cup {None}] BY <1>5, <1>6
  <2> QED BY <1>1, <1>4, <2>1, <2>2, <2>3, <2>4, <2>5 DEF TypeOK, startManagers, upVars
<1>8. Managers'
  <2> SUFFICES ASSUME NEW s \in Servers PROVE Manager(s)' BY DEF Managers
  <2>1. Manager(s) BY <1>1 DEF Managers
  <2> QED BY <1>2, <1>3, <2>1 DEF Manager, Pending
<1>9. Running' BY <1>1, <1>3 DEF Running, startManagers
<1>10. NoOrphanTools'
  <2>a. gwTools' = gwTools BY DEF startManagers
  <2>b. \A n \in Names : gwTools[n] # None => gwTools[n].owner \in Servers BY <1>1 DEF TypeOK
  <2> SUFFICES ASSUME NEW n \in Names, gwTools[n] # None, NEW s \in Servers,
                      s = gwTools[n].owner
               PROVE  mpc'[s] # "done" /\ (tools'[s][n] # None \/ n \in toRemove'[s])
    BY <2>a, <2>b DEF NoOrphanTools
  <2>1. mpc[s] # "done" /\ (tools[s][n] # None \/ n \in toRemove[s])
    BY <1>1 DEF NoOrphanTools
  <2> QED BY <1>3, <2>1
<1>11. BuiltRegistered' BY <1>3 DEF BuiltRegistered, WriteLock, startManagers
<1>12. RoutesRegistered' BY <1>5, <1>6 DEF RoutesRegistered, startManagers
<1> QED BY <1>7, <1>8, <1>9, <1>10, <1>11, <1>12 DEF Inv

-----------------------------------------------------------------------------
LEMMA InvNext == Inv /\ [Next]_vars => Inv'
<1> SUFFICES ASSUME Inv, [Next]_vars PROVE Inv' OBVIOUS
<1>1. CASE UNCHANGED vars
  <2>1. TypeOK' BY <1>1 DEF Inv, TypeOK, vars, upVars, reloadVars
  <2> QED BY <1>1, <2>1, QuietInv DEF vars, reloadVars
<1>2. ASSUME NEW s \in Servers, NEW l \in ToolList, UpstreamChange(s, l) PROVE Inv'
  BY <1>2, UpstreamChangeInv
<1>3. ASSUME NEW s \in Servers, ManagerStep(s) PROVE Inv'
  BY <1>3, manageDisabledInv, getToolsInv, manageToolsInv, DeleteToolsInv, AddToolsInv,
     buildRoutingTableInv, refreshRoutingTableInv, LoopCancelledInv DEF ManagerStep
<1>4. ASSUME NEW s \in Servers, ManagerFails(s) PROVE Inv'
  BY <1>4, handleConnectionFailureInv, manageKeepsToolsInv DEF ManagerFails
<1>5. ASSUME NEW stale \in SUBSET Servers, deregisterStaleManagers(stale) PROVE Inv'
  BY <1>5, deregisterInv
<1>6. CASE ReloadEnds
  BY <1>6, StopCancelInv, startManagersInv DEF ReloadEnds
<1> QED BY <1>1, <1>2, <1>3, <1>4, <1>5, <1>6 DEF Next

\* The inductive invariant holds of every behaviour of the registry.
THEOREM RegistryInvariant == Spec => []Inv
<1>1. Init => Inv BY InvInit
<1>2. Inv /\ [Next]_vars => Inv' BY InvNext
<1> QED BY <1>1, <1>2, PTL DEF Spec

\* The registry, the table and the managers keep their types.
THEOREM RegistryTypeCorrect == Spec => []TypeOK
<1>1. Inv => TypeOK BY DEF Inv
<1> QED BY <1>1, RegistryInvariant, PTL

\* However reloads, upstream changes, conflicts and failures interleave, an entry
\* of the gateway's registry has a running manager that accounts for it.
THEOREM NoOrphans == Spec => []NoOrphanTools
<1>1. Inv => NoOrphanTools BY DEF Inv
<1> QED BY <1>1, RegistryInvariant, PTL

\* Between reloads the table routes to registered servers only, although managers
\* refresh it concurrently under a shared lock.
THEOREM TableRoutesRegistered == Spec => []RoutesRegistered
<1>1. Inv => RoutesRegistered BY DEF Inv
<1> QED BY <1>1, RegistryInvariant, PTL

-----------------------------------------------------------------------------
(* Distinct prefixes: no two servers offer the same name *)

Distinct == \A s, t \in Servers : s # t => Offers[s] \cap Offers[t] = {}

\* Why manager s may take tool n from the gateway.
Why(s, n) ==
  \/ ValidateTools(fetched[s])[n] = None \/ Rejected(fetched[s])
  \/ failures[s] = MaxFailures
  \/ cancelled[s] = "stopping"

\* A manager deals with the names of its own server, and deletes for a reason.
Own(s) ==
  /\ \A n \in Names : (\/ upstreamTools[s][n] # None \/ fetched[s][n] # None
                       \/ tools[s][n] # None \/ n \in toRemove[s]) => n \in Offers[s]
  /\ \A n \in toRemove[s] : Why(s, n)
  /\ kind[s] = "disabled" => tools[s] = Empty
  /\ mpc[s] = "diff" => kind[s] = "enabled"

OwnersOffer == \A n \in Names : gwTools[n] # None => n \in Offers[gwTools[n].owner]

OwnInv == (\A s \in Servers : Own(s)) /\ OwnersOffer /\ ListedToolsServed

SameOwn(t) ==
  /\ Same(t)
  /\ upstreamTools'[t] = upstreamTools[t] /\ fetched'[t] = fetched[t]
  /\ failures'[t] = failures[t] /\ kind'[t] = kind[t]

LEMMA OwnSame ==
  ASSUME NEW t \in Servers, Own(t), SameOwn(t) PROVE Own(t)'
BY DEF Own, SameOwn, Same, Why

LEMMA OwnLocal ==
  ASSUME OwnInv, NEW s \in Servers, \A t \in Servers \ {s} : SameOwn(t), Own(s)'
  PROVE  \A t \in Servers : Own(t)'
BY OwnSame DEF OwnInv

\* Of a step that leaves the gateway's registry alone: what is listed anew is pending.
LEMMA ListedLocal ==
  ASSUME ListedToolsServed, UNCHANGED gwTools, NEW s \in Servers,
         \A t \in Servers \ {s} : SameOwn(t),
         \A n \in Names : tools'[s][n] # None =>
           n \in toAdd'[s] \/ (tools[s][n] # None /\ n \notin toAdd[s])
  PROVE  ListedToolsServed'
BY DEF ListedToolsServed, SameOwn, Same

LEMMA OwnInit == Init => OwnInv
<1> SUFFICES ASSUME Init PROVE OwnInv OBVIOUS
<1>1. \A s \in Servers : Own(s)
  BY EmptyList DEF Init, Own, Has
<1>2. OwnersOffer BY EmptyList DEF Init, OwnersOffer
<1>3. ListedToolsServed BY EmptyList DEF Init, ListedToolsServed
<1> QED BY <1>1, <1>2, <1>3 DEF OwnInv

\* removeAllTools with a reason, or with nothing to remove.
LEMMA RemoveAllOwn ==
  ASSUME Inv, OwnInv, NEW s \in Servers, mpc[s] \in {"select", "diff"}, removeAllTools(s),
         UNCHANGED <<upVars, gwTools, reloadVars, fetched>>,
         \A t \in Servers \ {s} : failures'[t] = failures[t] /\ cancelled'[t] = cancelled[t],
         tools[s] = Empty \/ \A n \in Names : Why(s, n)'
  PROVE  OwnInv'
<1>1. TypeOK /\ Managers /\ Own(s) /\ OwnersOffer /\ ListedToolsServed BY DEF Inv, OwnInv
<1>2. \A t \in Servers \ {s} : SameOwn(t)
  BY <1>1 DEF TypeOK, removeAllTools, SameOwn, Same, upVars, reloadVars
<1>3. /\ tools'[s] = Empty /\ toRemove'[s] = Has(tools[s]) /\ mpc'[s] = "delete"
      /\ upstreamTools' = upstreamTools /\ fetched' = fetched
  BY <1>1 DEF TypeOK, removeAllTools, upVars
<1>4. \A n \in Has(tools[s]) : n \in Names /\ tools[s][n] # None BY DEF Has
<1>5. \A n \in toRemove'[s] : Why(s, n)' BY <1>3, <1>4, EmptyList
<1>6. Own(s)' BY <1>1, <1>3, <1>4, <1>5, EmptyList DEF Own
<1>7. \A t \in Servers : Own(t)' BY <1>2, <1>6, OwnLocal
<1>8. ListedToolsServed' BY <1>1, <1>2, <1>3, EmptyList, ListedLocal
<1>9. OwnersOffer' BY <1>1 DEF OwnersOffer
<1> QED BY <1>7, <1>8, <1>9 DEF OwnInv

LEMMA manageDisabledOwn ==
  ASSUME Inv, OwnInv, NEW s \in Servers, manageDisabled(s)
  PROVE  OwnInv'
<1>1. tools[s] = Empty BY DEF OwnInv, Own, manageDisabled
<1>2. \A t \in Servers \ {s} : failures'[t] = failures[t] /\ cancelled'[t] = cancelled[t]
  BY DEF Inv, TypeOK, manageDisabled
<1> QED BY <1>1, <1>2, RemoveAllOwn DEF manageDisabled

LEMMA LoopCancelledOwn ==
  ASSUME Inv, OwnInv, NEW s \in Servers, LoopCancelled(s)
  PROVE  OwnInv'
<1>1. cancelled'[s] = "stopping" BY DEF Inv, TypeOK, LoopCancelled
<1>2. \A n \in Names : Why(s, n)' BY <1>1 DEF Why
<1>3. \A t \in Servers \ {s} : failures'[t] = failures[t] /\ cancelled'[t] = cancelled[t]
  BY DEF Inv, TypeOK, LoopCancelled
<1> QED BY <1>2, <1>3, RemoveAllOwn DEF LoopCancelled

\* Steps between two events of manager s: nothing is listed or pending that was not.
LEMMA IdleOwn ==
  ASSUME Inv, OwnInv, NEW s \in Servers, toRemove[s] = {}, \A t \in Servers \ {s} : SameOwn(t),
         UNCHANGED <<gwTools, tools, toAdd, toRemove, kind>>,
         mpc'[s] = "diff" => kind[s] = "enabled",
         \A n \in Names : upstreamTools'[s][n] # None \/ fetched'[s][n] # None => n \in Offers[s]
  PROVE  OwnInv'
<1>1. Own(s)' BY DEF OwnInv, Own
<1>2. \A t \in Servers : Own(t)' BY <1>1, OwnLocal
<1>3. OwnersOffer' /\ ListedToolsServed' BY DEF OwnInv, OwnersOffer, ListedToolsServed
<1> QED BY <1>2, <1>3 DEF OwnInv

LEMMA handleConnectionFailureOwn ==
  ASSUME Inv, OwnInv, NEW s \in Servers, handleConnectionFailure(s)
  PROVE  OwnInv'
<1>1. TypeOK /\ Managers /\ Own(s) BY DEF Inv, OwnInv
<1>2. \A t \in Servers \ {s} : failures'[t] = failures[t] /\ cancelled'[t] = cancelled[t]
  BY <1>1 DEF TypeOK, handleConnectionFailure
<1>3. CASE failures'[s] >= MaxFailures
  <2>1. failures'[s] = MaxFailures
    <3>1. failures'[s] \in 0 .. MaxFailures BY handleConnectionFailureInv DEF Inv, TypeOK
    <3> QED BY <1>3, <3>1, RegistryAssumption
  <2>2. \A n \in Names : Why(s, n)' BY <2>1 DEF Why
  <2> QED BY <1>2, <1>3, <2>2, RemoveAllOwn DEF handleConnectionFailure
<1>4. CASE ~(failures'[s] >= MaxFailures)
  <2>1. UNCHANGED <<tools, toRemove, mpc, toAdd>> BY <1>4 DEF handleConnectionFailure
  <2>2. toRemove[s] = {} BY <1>1 DEF Managers, Manager, handleConnectionFailure
  <2>3. \A t \in Servers \ {s} : SameOwn(t)
    BY <1>2, <2>1 DEF SameOwn, Same, handleConnectionFailure, upVars, reloadVars
  <2>4. UNCHANGED <<upstreamTools, fetched, gwTools, kind>> /\ mpc'[s] = "select"
    BY <2>1 DEF handleConnectionFailure, upVars, reloadVars
  <2>5. \A n \in Names : upstreamTools'[s][n] # None \/ fetched'[s][n] # None => n \in Offers[s]
    BY <1>1, <2>4 DEF Own
  <2> QED BY <2>1, <2>2, <2>3, <2>4, <2>5, IdleOwn
<1> QED BY <1>3, <1>4

LEMMA manageKeepsToolsOwn ==
  ASSUME Inv, OwnInv, NEW s \in Servers, manageKeepsTools(s)
  PROVE  OwnInv'
<1>1. TypeOK /\ Managers /\ Own(s) BY DEF Inv, OwnInv
<1>2. toRemove[s] = {} BY <1>1 DEF Managers, Manager, manageKeepsTools
<1>3. \A t \in Servers \ {s} : SameOwn(t)
  BY <1>1 DEF TypeOK, SameOwn, Same, manageKeepsTools, upVars, reloadVars
<1>4. UNCHANGED <<upstreamTools, fetched, gwTools, kind, tools, toAdd, toRemove>>
      /\ mpc'[s] = "select"
  BY DEF manageKeepsTools, upVars, reloadVars
<1>5. \A n \in Names : upstreamTools'[s][n] # None \/ fetched'[s][n] # None => n \in Offers[s]
  BY <1>1, <1>4 DEF Own
<1> QED BY <1>2, <1>3, <1>4, <1>5, IdleOwn

LEMMA getToolsOwn ==
  ASSUME Inv, OwnInv, NEW s \in Servers, getTools(s)
  PROVE  OwnInv'
<1>1. TypeOK /\ Managers /\ Own(s) BY DEF Inv, OwnInv
<1>2. toRemove[s] = {} BY <1>1 DEF Managers, Manager, getTools
<1>3. \A t \in Servers \ {s} : SameOwn(t)
  BY <1>1 DEF TypeOK, SameOwn, Same, getTools, upVars, reloadVars
<1>4. UNCHANGED <<upstreamTools, gwTools, kind, tools, toAdd, toRemove>>
      /\ kind[s] = "enabled" /\ fetched'[s] = upstreamTools[s]
  BY <1>1 DEF TypeOK, getTools, upVars, reloadVars
<1>5. \A n \in Names : upstreamTools'[s][n] # None \/ fetched'[s][n] # None => n \in Offers[s]
  BY <1>1, <1>4 DEF Own
<1> QED BY <1>2, <1>3, <1>4, <1>5, IdleOwn

LEMMA UpstreamChangeOwn ==
  ASSUME Inv, OwnInv, NEW s \in Servers, NEW l \in ToolList, UpstreamChange(s, l)
  PROVE  OwnInv'
<1>1. TypeOK /\ Own(s) BY DEF Inv, OwnInv
<1>2. \A t \in Servers \ {s} : SameOwn(t)
  BY <1>1 DEF TypeOK, SameOwn, Same, UpstreamChange, reloadVars
<1>3. upstreamTools'[s] = l /\ \A n \in Names : l[n] # None => n \in Offers[s]
  BY <1>1 DEF TypeOK, UpstreamChange, Has
<1>4. UNCHANGED <<gwTools, tools, toAdd, toRemove, kind, fetched, failures, cancelled, mpc>>
  BY DEF UpstreamChange, reloadVars
<1>5. Own(s)' BY <1>1, <1>3, <1>4 DEF Own, Why
<1>6. \A t \in Servers : Own(t)' BY <1>2, <1>5, OwnLocal
<1>7. OwnersOffer' /\ ListedToolsServed' BY <1>4 DEF OwnInv, OwnersOffer, ListedToolsServed
<1> QED BY <1>6, <1>7 DEF OwnInv

\* Steps that change neither lists nor the registry.
LEMMA StillOwn ==
  ASSUME OwnInv,
         UNCHANGED <<upstreamTools, gwTools, tools, toAdd, toRemove, kind, fetched, failures>>,
         \A s \in Servers : mpc'[s] = "diff" => mpc[s] = "diff",
         \A s \in Servers : cancelled[s] = "stopping" /\ toRemove[s] # {} =>
                            cancelled'[s] = "stopping"
  PROVE  OwnInv'
<1>1. \A s \in Servers : Own(s)'
  <2> SUFFICES ASSUME NEW s \in Servers PROVE Own(s)' OBVIOUS
  <2>1. Own(s) BY DEF OwnInv
  <2> QED BY <2>1 DEF Own, Why
<1>2. OwnersOffer' /\ ListedToolsServed' BY DEF OwnInv, OwnersOffer, ListedToolsServed
<1> QED BY <1>1, <1>2 DEF OwnInv

LEMMA manageToolsOwn ==
  ASSUME Inv, OwnInv, NEW s \in Servers, manageTools(s)
  PROVE  OwnInv'
<1> DEFINE valid == ValidateTools(fetched[s])
           diff == diffTools(tools[s], valid)
<1>1. TypeOK /\ Managers /\ Own(s) /\ OwnersOffer /\ ListedToolsServed BY DEF Inv, OwnInv
<1>2. \A n \in Names : valid[n] # None => fetched[s][n] # None
  <2>1. \A n \in Names : valid[n] = IF fetched[s][n] \in Invalid THEN None ELSE fetched[s][n]
    BY DEF ValidateTools, ValidateTool
  <2> QED BY <2>1
<1>3. diff.add = Has(valid) \ Has(tools[s]) /\ diff.remove = Has(tools[s]) \ Has(valid)
  BY DEF diffTools
<1>4. /\ mpc[s] = "diff"
      /\ UNCHANGED <<upVars, gwTools, cachedTable, reloadVars, fetched, built, failures,
                     cancelled>>
  BY DEF manageTools
<1>5. CASE Rejected(fetched[s]) /\ removeAllTools(s)
  <2>1. \A n \in Names : Why(s, n)' BY <1>4, <1>5 DEF Why
  <2> QED BY <1>4, <1>5, <2>1, RemoveAllOwn
<1>6. CASE mpc' = [mpc EXCEPT ![s] = "select"] /\ UNCHANGED <<tools, toAdd, toRemove>>
  <2>1. \A t \in Servers : mpc'[t] = "diff" => mpc[t] = "diff" BY <1>1, <1>6 DEF TypeOK
  <2> QED BY <1>4, <1>6, <2>1, StillOwn DEF upVars, reloadVars
<1>7. CASE /\ tools' = [tools EXCEPT ![s] = valid]
           /\ toAdd' = [toAdd EXCEPT ![s] = diff.add]
           /\ toRemove' = [toRemove EXCEPT ![s] = diff.remove]
           /\ mpc' = [mpc EXCEPT ![s] = "delete"]
  <2>1. \A n \in Names : valid[n] = None => Why(s, n)' BY <1>4 DEF Why
  <2> HIDE DEF valid, diff
  <2>2. \A t \in Servers \ {s} : SameOwn(t)
    BY <1>1, <1>4, <1>7 DEF TypeOK, SameOwn, Same, upVars, reloadVars
  <2>3. /\ tools'[s] = valid /\ toAdd'[s] = diff.add /\ toRemove'[s] = diff.remove
        /\ mpc'[s] = "delete" /\ kind'[s] = "enabled" /\ fetched' = fetched
        /\ upstreamTools' = upstreamTools
    BY <1>1, <1>4, <1>7 DEF TypeOK, Own, upVars, reloadVars
  <2>4. \A n \in diff.remove : n \in Names /\ valid[n] = None /\ tools[s][n] # None
    BY <1>3 DEF Has
  <2>5. Own(s)' BY <1>1, <1>2, <2>1, <2>3, <2>4 DEF Own
  <2>6. \A t \in Servers : Own(t)' BY <2>2, <2>5, OwnLocal
  <2>7. toAdd[s] = {} BY <1>1, <1>4 DEF Managers, Manager, Pending
  <2>8. \A n \in Names : tools'[s][n] # None =>
          n \in toAdd'[s] \/ (tools[s][n] # None /\ n \notin toAdd[s])
    BY <1>3, <2>3, <2>7 DEF Has
  <2>9. ListedToolsServed' BY <1>1, <1>4, <2>2, <2>8, ListedLocal
  <2>10. OwnersOffer' BY <1>1, <1>4 DEF OwnersOffer
  <2> QED BY <2>6, <2>9, <2>10 DEF OwnInv
<1> QED BY <1>5, <1>6, <1>7 DEF manageTools

\* Only s lists the names it deletes, and it lists them no more.
LEMMA DeleteToolsOwn ==
  ASSUME Distinct, Inv, OwnInv, NEW s \in Servers, DeleteTools(s)
  PROVE  OwnInv'
<1>1. TypeOK /\ Managers /\ Own(s) /\ OwnersOffer /\ ListedToolsServed BY DEF Inv, OwnInv
<1>2. /\ \A t \in Servers \ {s} : SameOwn(t)
      /\ toRemove'[s] = {} /\ mpc'[s] # "diff"
      /\ UNCHANGED <<upstreamTools, tools, toAdd, kind, fetched>>
  BY <1>1 DEF TypeOK, SameOwn, Same, DeleteTools, upVars, reloadVars
<1>3. Own(s)' BY <1>1, <1>2 DEF Own
<1>4. \A t \in Servers : Own(t)' BY <1>2, <1>3, OwnLocal
<1>5. \A n \in Names : gwTools'[n] = IF n \in toRemove[s] THEN None ELSE gwTools[n]
  BY DEF DeleteTools
<1>6. OwnersOffer' BY <1>1, <1>5 DEF OwnersOffer
<1>7. ListedToolsServed'
  <2> SUFFICES ASSUME NEW t \in Servers, NEW n \in Names, tools[t][n] # None
               PROVE  n \notin toRemove[s]
    BY <1>1, <1>2, <1>5 DEF ListedToolsServed
  <2> SUFFICES ASSUME n \in toRemove[s] PROVE FALSE OBVIOUS
  <2>1. tools[s][n] = None BY <1>1 DEF Managers, Manager
  <2>2. n \in Offers[s] BY <1>1 DEF Own
  <2>3. n \in Offers[t] BY DEF OwnInv, Own
  <2> QED BY <2>1, <2>2, <2>3 DEF Distinct
<1> QED BY <1>4, <1>6, <1>7 DEF OwnInv

LEMMA AddToolsOwn ==
  ASSUME Distinct, Inv, OwnInv, NEW s \in Servers, AddTools(s)
  PROVE  OwnInv'
<1>1. TypeOK /\ Managers /\ Own(s) /\ OwnersOffer /\ ListedToolsServed BY DEF Inv, OwnInv
<1>2. /\ \A t \in Servers \ {s} : SameOwn(t)
      /\ mpc'[s] # "diff"
      /\ UNCHANGED <<upstreamTools, tools, toRemove, kind, fetched, failures, cancelled>>
  BY <1>1 DEF TypeOK, SameOwn, Same, AddTools, Return, upVars, reloadVars
<1>3. Own(s)' BY <1>1, <1>2 DEF Own, Why
<1>4. \A t \in Servers : Own(t)' BY <1>2, <1>3, OwnLocal
<1>5. \A n \in Names : gwTools'[n] = IF n \in toAdd[s] THEN [owner |-> s, def |-> tools[s][n]]
                                     ELSE gwTools[n]
  BY DEF AddTools
<1>6. \A n \in toAdd[s] : n \in Names /\ n \in Offers[s] /\ gwTools'[n] # None
                          /\ gwTools'[n].owner = s
  <2> SUFFICES ASSUME NEW n \in toAdd[s]
               PROVE  n \in Names /\ n \in Offers[s] /\ gwTools'[n] # None
                      /\ gwTools'[n].owner = s
    OBVIOUS
  <2>1. n \in Names /\ tools[s][n] # None BY <1>1 DEF TypeOK, Managers, Manager
  <2>2. tools[s][n] \in Defs BY <1>1, <2>1 DEF TypeOK, ToolList
  <2>3. n \in Offers[s] BY <1>1, <2>1 DEF Own
  <2>4. gwTools'[n] = [owner |-> s, def |-> tools[s][n]] BY <1>5, <2>1
  <2>5. gwTools'[n].owner = s BY <2>4
  <2>7. gwTools'[n] # None BY <2>2, <2>4, EntryIsNotNone
  <2> QED BY <2>1, <2>3, <2>5, <2>7
<1>7. OwnersOffer' BY <1>1, <1>5, <1>6 DEF OwnersOffer
<1>8. ListedToolsServed'
  <2> SUFFICES ASSUME NEW t \in Servers, NEW n \in Names, tools[t][n] # None
               PROVE  n \in toAdd'[t] \/ (gwTools'[n] # None /\ gwTools'[n].owner = t)
    BY <1>2 DEF ListedToolsServed
  <2>1. n \in toAdd[t] \/ (gwTools[n] # None /\ gwTools[n].owner = t)
    BY <1>1 DEF ListedToolsServed
  <2>2. CASE n \in toAdd[s]
    <3>1. n \in Offers[t] BY DEF OwnInv, Own
    <3>2. t = s BY <1>6, <2>2, <3>1 DEF Distinct
    <3> QED BY <1>6, <2>2, <3>2
  <2>3. CASE n \notin toAdd[s]
    <3>1. gwTools'[n] = gwTools[n] BY <1>5, <2>3
    <3>2. n \in toAdd[t] => n \in toAdd'[t] BY <1>2, <2>3 DEF SameOwn, Same
    <3> QED BY <2>1, <3>1, <3>2
  <2> QED BY <2>2, <2>3
<1> QED BY <1>4, <1>7, <1>8 DEF OwnInv

LEMMA TableOwn ==
  ASSUME Inv, OwnInv, NEW s \in Servers, buildRoutingTable(s) \/ refreshRoutingTable(s)
  PROVE  OwnInv'
<1>1. UNCHANGED <<upstreamTools, gwTools, tools, toAdd, toRemove, kind, fetched, failures,
                  cancelled>>
  BY DEF buildRoutingTable, refreshRoutingTable, upVars, reloadVars
<1>2. \A t \in Servers : mpc'[t] = "diff" => mpc[t] = "diff"
  BY DEF Inv, TypeOK, buildRoutingTable, refreshRoutingTable, Return
<1> QED BY <1>1, <1>2, StillOwn

LEMMA StopCancelOwn ==
  ASSUME Inv, OwnInv, NEW s \in Servers, StopCancel(s)
  PROVE  OwnInv'
<1>1. UNCHANGED <<upstreamTools, gwTools, tools, toAdd, toRemove, kind, fetched, failures, mpc>>
  BY DEF StopCancel, upVars, reloadVars
<1>2. \A t \in Servers : cancelled[t] = "stopping" => cancelled'[t] = "stopping"
  BY DEF Inv, TypeOK, StopCancel
<1> QED BY <1>1, <1>2, StillOwn

LEMMA deregisterOwn ==
  ASSUME OwnInv, NEW stale \in SUBSET Servers, deregisterStaleManagers(stale)
  PROVE  OwnInv'
BY StillOwn DEF deregisterStaleManagers, upVars

\* A manager starts with empty lists.
LEMMA startManagersOwn ==
  ASSUME Inv, OwnInv, NEW new \in SUBSET Servers, NEW k \in [Servers -> Kinds],
         startManagers(new, k)
  PROVE  OwnInv'
<1>1. Managers /\ Running BY DEF Inv
<1>2. \A s \in new : mpc[s] = "done" BY <1>1 DEF Running, startManagers
<1>3. UNCHANGED <<upstreamTools, gwTools, tools, toAdd, toRemove>>
  BY DEF startManagers, upVars
<1>4. \A s \in Servers : Own(s)'
  <2> SUFFICES ASSUME NEW s \in Servers PROVE Own(s)' OBVIOUS
  <2>1. Own(s) /\ Manager(s) BY <1>1 DEF OwnInv, Managers
  <2>2. CASE s \in new
    <3>1. tools[s] = Empty /\ toRemove[s] = {} BY <1>2, <2>1, <2>2 DEF Manager
    <3>2. mpc'[s] = "select" /\ fetched'[s] = Empty BY <2>2 DEF startManagers
    <3> QED BY <1>3, <2>1, <3>1, <3>2, EmptyList DEF Own
  <2>3. CASE s \notin new
    <3>1. /\ mpc'[s] = mpc[s] /\ fetched'[s] = fetched[s] /\ kind'[s] = kind[s]
          /\ failures'[s] = failures[s] /\ cancelled'[s] = cancelled[s]
      BY <2>3 DEF startManagers
    <3>2. SameOwn(s) BY <1>3, <3>1 DEF SameOwn, Same
    <3> QED BY <2>1, <3>2, OwnSame
  <2> QED BY <2>2, <2>3
<1>5. OwnersOffer' /\ ListedToolsServed'
  BY <1>3 DEF OwnInv, OwnersOffer, ListedToolsServed
<1> QED BY <1>4, <1>5 DEF OwnInv

LEMMA OwnNext ==
  ASSUME Distinct, Inv, OwnInv, [Next]_vars PROVE OwnInv'
<1>1. CASE UNCHANGED vars
  BY <1>1, StillOwn DEF vars, upVars, reloadVars
<1>2. ASSUME NEW s \in Servers, NEW l \in ToolList, UpstreamChange(s, l) PROVE OwnInv'
  BY <1>2, UpstreamChangeOwn
<1>3. ASSUME NEW s \in Servers, ManagerStep(s) PROVE OwnInv'
  BY <1>3, manageDisabledOwn, getToolsOwn, manageToolsOwn, DeleteToolsOwn, AddToolsOwn,
     TableOwn, LoopCancelledOwn DEF ManagerStep
<1>4. ASSUME NEW s \in Servers, ManagerFails(s) PROVE OwnInv'
  BY <1>4, handleConnectionFailureOwn, manageKeepsToolsOwn DEF ManagerFails
<1>5. ASSUME NEW stale \in SUBSET Servers, deregisterStaleManagers(stale) PROVE OwnInv'
  BY <1>5, deregisterOwn
<1>6. CASE ReloadEnds
  BY <1>6, StopCancelOwn, startManagersOwn DEF ReloadEnds
<1> QED BY <1>1, <1>2, <1>3, <1>4, <1>5, <1>6 DEF Next

\* With distinct prefixes a manager's list and the gateway's registry agree, up to
\* additions that are under way, for any number of servers and any interleaving.
THEOREM ListedServed == Distinct => (Spec => []ListedToolsServed)
<1> SUFFICES ASSUME Distinct PROVE Spec => []ListedToolsServed OBVIOUS
<1>1. Init => OwnInv BY OwnInit
<1>2. Inv /\ OwnInv /\ [Next]_vars => OwnInv' BY OwnNext
<1>3. OwnInv => ListedToolsServed BY DEF OwnInv
<1> QED BY <1>1, <1>2, <1>3, RegistryInvariant, PTL DEF Spec

\* What one step may take from the gateway.
LEMMA DropStep ==
  ASSUME Distinct, Inv, OwnInv, [Next]_vars, NEW n \in Names,
         gwTools[n] # None, gwTools'[n] = None
  PROVE  Why(gwTools[n].owner, n)
<1>1. \A s \in Servers : ~AddTools(s)
  <2> SUFFICES ASSUME NEW s \in Servers, AddTools(s) PROVE FALSE OBVIOUS
  <2>2. gwTools'[n] = [owner |-> s, def |-> tools[s][n]] /\ n \in toAdd[s]
    BY DEF AddTools
  <2>3. Manager(s) BY DEF Inv, Managers
  <2>4. tools[s][n] # None BY <2>2, <2>3 DEF Manager
  <2>5. tools[s] \in [Names -> Defs \cup {None}] BY DEF Inv, TypeOK, ToolList
  <2>6. tools[s][n] \in Defs BY <2>4, <2>5
  <2> QED BY <2>2, <2>6, EntryIsNotNone
<1>2. PICK s \in Servers : DeleteTools(s)
  <2>1. ~UNCHANGED gwTools OBVIOUS
  <2> QED BY <1>1, <2>1 DEF Next, vars, UpstreamChange, ManagerStep, ManagerFails, ReloadEnds,
        manageDisabled, getTools, manageTools, buildRoutingTable, refreshRoutingTable,
        LoopCancelled, handleConnectionFailure, manageKeepsTools, deregisterStaleManagers,
        StopCancel, startManagers
<1>3. n \in toRemove[s] BY <1>2 DEF DeleteTools
<1>4. n \in Offers[s] /\ Why(s, n) BY <1>3 DEF OwnInv, Own
<1>5. gwTools[n].owner \in Servers /\ n \in Offers[gwTools[n].owner]
  BY DEF Inv, TypeOK, OwnInv, OwnersOffer
<1>6. gwTools[n].owner = s BY <1>4, <1>5 DEF Distinct
<1> QED BY <1>4, <1>6

\* With distinct prefixes a tool leaves the gateway only for a reason of its own
\* server: the last list, MaxFailures failures in a row, or the end of its manager.
THEOREM DropsHaveReason == Distinct => (Spec => DropsJustified)
<1> SUFFICES ASSUME Distinct PROVE Spec => DropsJustified OBVIOUS
<1> DEFINE Step == \A n \in Names : gwTools[n] # None /\ gwTools'[n] = None =>
                     LET s == gwTools[n].owner
                     IN \/ ValidateTools(fetched[s])[n] = None \/ Rejected(fetched[s])
                        \/ failures[s] = MaxFailures
                        \/ cancelled[s] = "stopping"
<1>1. Init => OwnInv BY OwnInit
<1>2. Inv /\ OwnInv /\ [Next]_vars => OwnInv' BY OwnNext
<1>3. Inv /\ OwnInv /\ [Next]_vars => [Step]_vars BY DropStep DEF Why
<1> QED BY <1>1, <1>2, <1>3, RegistryInvariant, PTL DEF Spec, DropsJustified

=============================================================================
