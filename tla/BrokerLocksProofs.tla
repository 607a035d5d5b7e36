------------------------- MODULE BrokerLocksProofs -------------------------
(***************************************************************************)
(* Proofs about BrokerLocks.  The inductive invariant Inv counts the read  *)
(* holds and pending RLock calls of every goroutine (Holds) and says that  *)
(* reloads are serialised and stop managers before they start any          *)
(* (Serial).  From it follow, without further assumptions, that phase 3    *)
(* starts no manager twice, and, for the configurations in which nobody    *)
(* takes mcpLock twice, that the broker is free of deadlock.               *)
(***************************************************************************)
EXTENDS BrokerLocks, TLAPS

\* Read holds of p plus its RLock call that still waits.
Total(p) == rcount[p] + (IF p \in waiting THEN 1 ELSE 0)

ManagerHolds == \A s \in Servers : Total(s) = IF mpc[s] \in {"refresh", "removed"} THEN 1 ELSE 0
RequestHolds == \A q \in Requests :
  Total(q) = IF qpc[q] = "idle" THEN 0 ELSE IF qpc[q] = "read" THEN 1 ELSE 2
ShutdownHolds == \A p \in Shutdowns :
  /\ Total(p) = IF spc \in {"read", "stop"} THEN 1 ELSE 0
  /\ spc = "stop" => p \notin waiting
Holds == ManagerHolds /\ RequestHolds /\ ShutdownHolds

Serial ==
  /\ \A r \in Reloads : rpc[r] \notin {"idle", "reloadMu"} => reloadMu = r
  /\ \A r \in Reloads : reloadMu = r => rpc[r] \notin {"idle", "reloadMu"}
  /\ \A r \in Reloads : rpc[r] # "stop" => toStop[r] = {}
  /\ spc # "stop" => \A p \in Shutdowns : toStop[p] = {}
  /\ \A p \in Stoppers : stopping[p] # None => stopping[p] \in toStop[p]
  /\ \A s \in Servers : mpc[s] # "done" =>
       s \in mcpServers \/ \E r \in Reloads : s \in toStop[r]

Inv == TypeOK /\ Holds /\ Serial

-----------------------------------------------------------------------------
\* An RLock call adds one to the caller's total and leaves the others alone.
LEMMA RLockTotal ==
  ASSUME TypeOK, NEW p \in Procs, p \notin waiting, RLock(p)
  PROVE  /\ rcount' \in [Procs -> Nat] /\ waiting' \in SUBSET Procs /\ writer' = writer
         /\ \A q \in Procs : Total(q)' = IF q = p THEN Total(q) + 1 ELSE Total(q)
         /\ \A q \in Procs : q # p => (q \in waiting' <=> q \in waiting)
BY DEF TypeOK, RLock, Total

\* RUnlock takes one away from a goroutine that holds the lock.
LEMMA RUnlockTotal ==
  ASSUME TypeOK, NEW p \in Procs, p \notin waiting, Total(p) > 0, RUnlock(p)
  PROVE  /\ rcount' \in [Procs -> Nat] /\ waiting' = waiting /\ writer' = writer
         /\ \A q \in Procs : Total(q)' = IF q = p THEN Total(q) - 1 ELSE Total(q)
BY DEF TypeOK, RUnlock, Total

\* Unlock turns waiting calls into holds: no total changes.
LEMMA UnlockTotal ==
  ASSUME TypeOK, Unlock
  PROVE  /\ rcount' \in [Procs -> Nat] /\ waiting' = {} /\ writer' = None
         /\ \A q \in Procs : Total(q)' = Total(q)
BY DEF TypeOK, Unlock, Total

\* With rcount and waiting unchanged no total changes.
LEMMA SameTotal ==
  ASSUME UNCHANGED <<rcount, waiting>>
  PROVE  \A q : Total(q)' = Total(q)
BY DEF Total

\* The four kinds of goroutine are different goroutines.
LEMMA Kinds ==
  /\ Servers \subseteq Procs /\ Requests \subseteq Procs /\ Reloads \subseteq Procs
  /\ Shutdowns \subseteq Procs /\ Stoppers = Reloads \cup Shutdowns
  /\ \A s \in Servers : s \notin Requests /\ s \notin Reloads /\ s \notin Shutdowns /\ s # None
  /\ \A r \in Reloads : r \notin Requests /\ r \notin Shutdowns /\ r # None
  /\ \A q \in Requests : q \notin Shutdowns /\ q # None
BY LocksAssumption DEF Procs, Stoppers

-----------------------------------------------------------------------------
\* The broker starts with every lock free.
LEMMA InvInit == Init => Inv
<1> SUFFICES ASSUME Init PROVE Inv OBVIOUS
<1>1. TypeOK BY Kinds DEF Init, TypeOK
<1>2. Holds BY Kinds DEF Init, Holds, ManagerHolds, RequestHolds, ShutdownHolds, Total
<1>3. Serial BY Kinds DEF Init, Serial
<1>4. QED BY <1>1, <1>2, <1>3 DEF Inv

\* Every step of a reload preserves the invariant.
LEMMA InvReload ==
  ASSUME Inv, NEW r \in Reloads, ReloadBegin(r) \/ ReloadStep(r)
  PROVE  Inv'
<1> USE Kinds DEF Inv
<1>1. CASE ReloadBegin(r) \/ ReloadLock(r)
  <2>1. TypeOK' BY <1>1 DEF TypeOK, ReloadBegin, ReloadLock, lockVars, managerVars, stopVars
  <2>2. Holds' BY <1>1, SameTotal DEF Holds, ManagerHolds, RequestHolds, ShutdownHolds,
          ReloadBegin, ReloadLock, lockVars, managerVars
  <2>3. Serial' BY <1>1 DEF TypeOK, Serial, ReloadBegin, ReloadLock, managerVars, stopVars
  <2>4. QED BY <2>1, <2>2, <2>3
<1>2. CASE McpLockCall(r)
  <2>1. TypeOK' BY <1>2 DEF TypeOK, McpLockCall, LockCall, managerVars, stopVars
  <2>2. Holds' BY <1>2, SameTotal DEF Holds, ManagerHolds, RequestHolds, ShutdownHolds,
          McpLockCall, LockCall, managerVars
  <2>3. Serial' BY <1>2 DEF TypeOK, Serial, McpLockCall, managerVars, stopVars
  <2>4. QED BY <2>1, <2>2, <2>3
<1>3. ASSUME NEW stale \in SUBSET Servers, deregisterStaleManagers(r, stale) PROVE Inv'
  <2>1. TypeOK' BY <1>3, UnlockTotal DEF TypeOK, deregisterStaleManagers, managerVars
  <2>2. Holds' BY <1>3, UnlockTotal DEF Holds, ManagerHolds, RequestHolds, ShutdownHolds,
          deregisterStaleManagers, managerVars
  <2>3. Serial' BY <1>3 DEF TypeOK, Serial, deregisterStaleManagers, managerVars
  <2>4. QED BY <2>1, <2>2, <2>3
<1>4. ASSUME NEW s \in Servers, StopBegin(r, s) \/ StopEnd(r, s) PROVE Inv'
  <2>1. TypeOK' BY <1>4 DEF TypeOK, StopBegin, StopEnd, lockVars, reloadVars, managerVars
  <2>2. Holds' BY <1>4, SameTotal DEF Holds, ManagerHolds, RequestHolds, ShutdownHolds,
          StopBegin, StopEnd, lockVars, managerVars
  <2>3. Serial' BY <1>4 DEF TypeOK, Serial, StopBegin, StopEnd, reloadVars, managerVars
  <2>4. QED BY <2>1, <2>2, <2>3
<1>5. CASE StopsReturned(r)
  <2>1. TypeOK' BY <1>5 DEF TypeOK, StopsReturned, lockVars, managerVars, stopVars
  <2>2. Holds' BY <1>5, SameTotal DEF Holds, ManagerHolds, RequestHolds, ShutdownHolds,
          StopsReturned, lockVars, managerVars
  <2>3. Serial' BY <1>5 DEF TypeOK, Serial, StopsReturned, managerVars, stopVars
  <2>4. QED BY <2>1, <2>2, <2>3
<1>6. ASSUME NEW new \in SUBSET Servers, startManagers(r, new) PROVE Inv'
  <2>1. TypeOK' BY <1>6, UnlockTotal DEF TypeOK, startManagers, stopVars
  <2>2. \A s \in new : mpc[s] = "done" BY <1>6 DEF Serial, TypeOK, startManagers
  <2>3. ManagerHolds'
    BY <1>6, <2>2, UnlockTotal DEF TypeOK, Holds, ManagerHolds, startManagers
  <2>4. RequestHolds' /\ ShutdownHolds'
    BY <1>6, UnlockTotal DEF Holds, RequestHolds, ShutdownHolds, startManagers
  <2>5. Serial' BY <1>6 DEF TypeOK, Serial, startManagers, stopVars
  <2>6. QED BY <2>1, <2>3, <2>4, <2>5 DEF Holds
<1>7. ASSUME NEW new \in SUBSET Servers, startManagersSyncTags(r, new) PROVE Inv'
  <2>0. waiting' \in SUBSET Procs /\ rcount' \in [Procs -> Nat] /\ writer' = writer
        /\ \A q \in Procs : q # r => (q \in waiting' <=> q \in waiting) /\ Total(q)' = Total(q)
    BY <1>7 DEF TypeOK, startManagersSyncTags, RLock, Total
  <2>1. TypeOK' BY <1>7, <2>0 DEF TypeOK, startManagersSyncTags, stopVars
  <2>2. \A s \in new : mpc[s] = "done" BY <1>7 DEF Serial, TypeOK, startManagersSyncTags
  <2>3. ManagerHolds'
    BY <1>7, <2>0, <2>2 DEF TypeOK, Holds, ManagerHolds, startManagersSyncTags
  <2>4. RequestHolds' /\ ShutdownHolds'
    BY <1>7, <2>0 DEF Holds, RequestHolds, ShutdownHolds, startManagersSyncTags
  <2>5. Serial' BY <1>7 DEF TypeOK, Serial, startManagersSyncTags, stopVars
  <2>6. QED BY <2>1, <2>3, <2>4, <2>5 DEF Holds
<1>8. QED BY <1>1, <1>2, <1>3, <1>4, <1>5, <1>6, <1>7 DEF ReloadStep

\* Every step of a manager loop preserves the invariant.
LEMMA InvManager ==
  ASSUME Inv, NEW s \in Servers, ManagerStep(s)
  PROVE  Inv'
<1> USE Kinds DEF Inv
<1>1. CASE ManageBegin(s) \/ ManageEnd(s) \/ LoopCancelled(s) \/ CloseDone(s)
  <2>1. TypeOK' BY <1>1 DEF TypeOK, ManageBegin, ManageEnd, LoopCancelled, CloseDone,
          lockVars, reloadVars, stopVars
  <2>2. Holds' BY <1>1, SameTotal DEF TypeOK, Holds, ManagerHolds, RequestHolds, ShutdownHolds,
          ManageBegin, ManageEnd, LoopCancelled, CloseDone, lockVars
  <2>3. Serial' BY <1>1 DEF TypeOK, Serial, ManageBegin, ManageEnd, LoopCancelled, CloseDone,
          reloadVars, stopVars
  <2>4. QED BY <2>1, <2>2, <2>3
<1>2. ASSUME mpc[s] \in {"manage", "remove"}, RLock(s), lists' \in [Servers -> SUBSET {"tools", "prompts"}],
             mpc' = [mpc EXCEPT ![s] = IF @ = "manage" THEN "refresh" ELSE "removed"],
             UNCHANGED <<reloadVars, stopVars, cancelled, qpc, spc>>
      PROVE  Inv'
  <2>0. s \notin waiting BY <1>2 DEF TypeOK, Holds, ManagerHolds, Total
  <2>1. TypeOK' BY <1>2, <2>0, RLockTotal DEF TypeOK, reloadVars, stopVars
  <2>2. ManagerHolds' BY <1>2, <2>0, RLockTotal DEF TypeOK, Holds, ManagerHolds
  <2>3. RequestHolds' /\ ShutdownHolds'
    BY <1>2, <2>0, RLockTotal DEF TypeOK, Holds, RequestHolds, ShutdownHolds
  <2>4. Serial' BY <1>2 DEF TypeOK, Serial, reloadVars, stopVars
  <2>5. QED BY <2>1, <2>2, <2>3, <2>4 DEF Holds
<1>3. ASSUME NEW l \in SUBSET {"tools", "prompts"}, ManageTableChange(s, l) PROVE Inv'
  BY <1>2, <1>3 DEF ManageTableChange, TypeOK
<1>4. CASE RemoveAll(s)
  BY <1>2, <1>4 DEF RemoveAll, TypeOK
<1>5. CASE OnTableChange(s)
  <2>0. Total(s) > 0 BY <1>5 DEF OnTableChange, Holds, ManagerHolds
  <2>1. TypeOK' BY <1>5, <2>0, RUnlockTotal DEF TypeOK, OnTableChange, reloadVars, stopVars
  <2>2. ManagerHolds' BY <1>5, <2>0, RUnlockTotal DEF TypeOK, Holds, ManagerHolds, OnTableChange
  <2>3. RequestHolds' /\ ShutdownHolds'
    BY <1>5, <2>0, RUnlockTotal DEF TypeOK, Holds, RequestHolds, ShutdownHolds, OnTableChange
  <2>4. Serial' BY <1>5 DEF TypeOK, Serial, OnTableChange, reloadVars, stopVars
  <2>5. QED BY <2>1, <2>2, <2>3, <2>4 DEF Holds
<1>6. QED BY <1>1, <1>3, <1>4, <1>5 DEF ManagerStep

\* Every step of a request preserves the invariant.
LEMMA InvRequest ==
  ASSUME Inv, NEW q \in Requests, RequestStep(q)
  PROVE  Inv'
<1> USE Kinds DEF Inv
<1>0. Serial' BY DEF Serial, RequestStep, RequestRLock, findServerByName, RequestRUnlock,
        reloadVars, stopVars, managerVars
<1>1. ASSUME q \notin waiting, RLock(q), qpc[q] \in {"idle", "read"},
             qpc' = [qpc EXCEPT ![q] = IF @ = "idle" THEN "read" ELSE "nested"],
             UNCHANGED <<reloadVars, stopVars, managerVars, cancelled, spc>>
      PROVE  Inv'
  <2>1. TypeOK' BY <1>1, RLockTotal DEF TypeOK, reloadVars, stopVars, managerVars
  <2>2. RequestHolds' BY <1>1, RLockTotal DEF TypeOK, Holds, RequestHolds
  <2>3. ManagerHolds' BY <1>1, RLockTotal DEF Holds, ManagerHolds, managerVars
  <2>4. ShutdownHolds' BY <1>1, RLockTotal DEF Holds, ShutdownHolds
  <2>5. QED BY <1>0, <2>1, <2>2, <2>3, <2>4 DEF Holds
<1>a. CASE RequestRLock(q)
  <2>1. q \notin waiting BY <1>a DEF TypeOK, Holds, RequestHolds, Total, RequestRLock
  <2>2. QED BY <1>1, <1>a, <2>1 DEF RequestRLock, TypeOK
<1>b. CASE findServerByName(q)
  BY <1>1, <1>b DEF findServerByName, TypeOK
<1>2. CASE RequestRUnlock(q)
  <2>0. Total(q) > 0 BY <1>2 DEF RequestRUnlock, Holds, RequestHolds
  <2>1. TypeOK' BY <1>2, <2>0, RUnlockTotal DEF TypeOK, RequestRUnlock, reloadVars, stopVars, managerVars
  <2>2. RequestHolds' BY <1>2, <2>0, RUnlockTotal DEF TypeOK, Holds, RequestHolds, RequestRUnlock
  <2>3. ManagerHolds' /\ ShutdownHolds'
    BY <1>2, <2>0, RUnlockTotal DEF TypeOK, Holds, ManagerHolds, ShutdownHolds, RequestRUnlock, managerVars
  <2>4. QED BY <1>0, <2>1, <2>2, <2>3 DEF Holds
<1>3. QED BY <1>a, <1>b, <1>2 DEF RequestStep

\* Every step of Shutdown preserves the invariant.
LEMMA InvShutdown ==
  ASSUME Inv, NEW p \in Shutdowns, ShutdownStep(p)
  PROVE  Inv'
<1> USE Kinds DEF Inv
<1>a. \A q \in Shutdowns : q = p BY LocksAssumption
<1>1. CASE ShutdownRLock(p)
  <2>0. p \notin waiting BY <1>1 DEF TypeOK, Holds, ShutdownHolds, Total, ShutdownRLock
  <2>1. TypeOK' BY <1>1, <2>0, RLockTotal DEF TypeOK, ShutdownRLock, reloadVars, stopVars, managerVars
  <2>2. Holds' BY <1>1, <1>a, <2>0, RLockTotal DEF TypeOK, Holds, ManagerHolds, RequestHolds,
          ShutdownHolds, ShutdownRLock, managerVars
  <2>3. Serial' BY <1>1 DEF Serial, ShutdownRLock, reloadVars, stopVars, managerVars
  <2>4. QED BY <2>1, <2>2, <2>3
<1>2. CASE ShutdownBegin(p)
  <2>1. TypeOK' BY <1>2 DEF TypeOK, ShutdownBegin, lockVars, reloadVars, managerVars
  <2>2. Holds' BY <1>2, <1>a, SameTotal DEF Holds, ManagerHolds, RequestHolds,
          ShutdownHolds, ShutdownBegin, lockVars, managerVars
  <2>3. Serial' BY <1>2, <1>a DEF TypeOK, Serial, ShutdownBegin, reloadVars, managerVars
  <2>4. QED BY <2>1, <2>2, <2>3
<1>3. CASE ShutdownRUnlock(p)
  <2>a. spc = "stop" BY <1>3 DEF ShutdownRUnlock
  <2>b. Total(p) = 1 /\ p \notin waiting BY <2>a DEF Holds, ShutdownHolds
  <2>0. Total(p) > 0 /\ p \notin waiting BY <2>b
  <2>1. TypeOK' BY <1>3, <2>0, RUnlockTotal DEF TypeOK, ShutdownRUnlock, reloadVars, stopVars, managerVars
  <2>2. Holds' BY <1>3, <1>a, <2>0, RUnlockTotal DEF TypeOK, Holds, ManagerHolds, RequestHolds,
          ShutdownHolds, ShutdownRUnlock, managerVars
  <2>3. Serial' BY <1>3, <1>a DEF Serial, ShutdownRUnlock, reloadVars, stopVars, managerVars
  <2>4. QED BY <2>1, <2>2, <2>3
<1>4. ASSUME NEW s \in Servers, StopBegin(p, s) \/ StopEnd(p, s) PROVE Inv'
  <2>1. TypeOK' BY <1>4 DEF TypeOK, StopBegin, StopEnd, lockVars, reloadVars, managerVars
  <2>2. Holds' BY <1>4, SameTotal DEF Holds, ManagerHolds, RequestHolds, ShutdownHolds,
          StopBegin, StopEnd, lockVars, managerVars
  <2>3. Serial' BY <1>4, <1>a DEF TypeOK, Serial, StopBegin, StopEnd, reloadVars, managerVars
  <2>4. QED BY <2>1, <2>2, <2>3
<1>5. QED BY <1>1, <1>2, <1>3, <1>4 DEF ShutdownStep

\* The inductive invariant holds in every reachable state.
THEOREM LocksInvariant == Spec => []Inv
<1>1. ASSUME Inv, [Next]_vars PROVE Inv'
  <2>1. CASE UNCHANGED vars
    BY <1>1, <2>1 DEF Inv, TypeOK, Holds, ManagerHolds, RequestHolds, ShutdownHolds, Serial,
       Total, vars, lockVars, reloadVars, stopVars, managerVars
  <2>2. QED BY <1>1, <2>1, InvReload, InvManager, InvRequest, InvShutdown DEF Next
<1>2. QED BY <1>1, InvInit, PTL DEF Spec

\* Every count of read holds is a natural number and every program counter one
\* of its goroutine's: no RUnlock of mcpLock without an RLock.
THEOREM LocksTypeCorrect == Spec => []TypeOK
BY LocksInvariant, PTL DEF Inv

\* startManagers, in phase 3 of OnConfigChange, never starts a second manager for
\* a server whose previous manager still runs, however many reloads and managers
\* there are and whenever Shutdown comes.
THEOREM StopsBeforeStarts == Spec => []StartsAfterStop
<1>1. Inv => StartsAfterStop
  BY DEF Inv, TypeOK, Serial, StartsAfterStop
<1>2. QED BY <1>1, LocksInvariant, PTL

-----------------------------------------------------------------------------
\* Nobody takes mcpLock twice: no server has tags, no handler meets an
\* x-mcp-authorized header under the lock, Shutdown is not running.
NoNesting == Shutdowns = {} /\ TRUE \notin TagConfigs /\ TRUE \notin Authorized

\* Then a pending RLock is a goroutine's only business with mcpLock, and the
\* writer is the reload that holds reloadMu, inside phase 1 or phase 3.
Plain ==
  /\ \A r \in Reloads : rpc[r] # "tags" /\ r \notin waiting /\ rcount[r] = 0
  /\ \A q \in Requests : qpc[q] # "nested"
  /\ \A r \in Reloads : writer = r => rpc[r] \in {"deregister", "start"}

\* Plain is preserved by every step.
LEMMA PlainStep ==
  ASSUME NoNesting, Inv, Plain, [Next]_vars
  PROVE  Plain'
<1> USE Kinds DEF NoNesting, Inv
<1>1. CASE UNCHANGED vars
  BY <1>1 DEF Plain, vars, lockVars, reloadVars
<1>2. ASSUME NEW r \in Reloads, ReloadBegin(r) \/ ReloadLock(r) \/ StopsReturned(r) PROVE Plain'
  BY <1>2 DEF TypeOK, Plain, ReloadBegin, ReloadLock, StopsReturned, lockVars
<1>3. ASSUME NEW r \in Reloads, McpLockCall(r) PROVE Plain'
  BY <1>3 DEF TypeOK, Plain, McpLockCall, LockCall
<1>4. ASSUME NEW r \in Reloads, NEW stale \in SUBSET Servers, deregisterStaleManagers(r, stale) PROVE Plain'
  BY <1>4 DEF TypeOK, Plain, deregisterStaleManagers, Unlock
<1>5. ASSUME NEW r \in Reloads, NEW s \in Servers, StopBegin(r, s) \/ StopEnd(r, s) PROVE Plain'
  BY <1>5 DEF Plain, StopBegin, StopEnd, lockVars, reloadVars
<1>6. ASSUME NEW r \in Reloads, NEW new \in SUBSET Servers, startManagers(r, new) PROVE Plain'
  BY <1>6 DEF TypeOK, Plain, startManagers, Unlock
<1>7. ASSUME NEW r \in Reloads, NEW new \in SUBSET Servers, startManagersSyncTags(r, new) PROVE FALSE
  BY <1>7 DEF startManagersSyncTags
<1>8. ASSUME NEW p \in Servers \cup Requests, RLock(p) \/ RUnlock(p) \/ UNCHANGED lockVars,
             UNCHANGED reloadVars, \A q \in Requests : qpc'[q] # "nested"
      PROVE  Plain'
  BY <1>8 DEF TypeOK, Plain, RLock, RUnlock, lockVars, reloadVars
<1>9. ASSUME NEW s \in Servers, ManagerStep(s) PROVE Plain'
  <2>1. UNCHANGED <<reloadVars, qpc>> /\ (RLock(s) \/ RUnlock(s) \/ UNCHANGED lockVars)
    BY <1>9 DEF ManagerStep, ManageBegin, ManageEnd, LoopCancelled, ManageTableChange, RemoveAll,
       CloseDone, OnTableChange
  <2>2. QED BY <1>8, <2>1 DEF Plain
<1>10. ASSUME NEW q \in Requests, RequestStep(q) PROVE Plain'
  <2>1. UNCHANGED reloadVars /\ (RLock(q) \/ RUnlock(q))
    BY <1>10 DEF RequestStep, RequestRLock, findServerByName, RequestRUnlock
  <2>2. \A t \in Requests : qpc'[t] # "nested"
    <3>1. ~findServerByName(q) BY DEF findServerByName
    <3>2. CASE RequestRLock(q) BY <3>2 DEF TypeOK, Plain, RequestRLock
    <3>3. CASE RequestRUnlock(q) BY <3>3 DEF TypeOK, Plain, RequestRUnlock
    <3> QED BY <1>10, <3>1, <3>2, <3>3 DEF RequestStep
  <2>3. QED BY <1>8, <2>1, <2>2
<1>11. QED
  BY <1>1, <1>2, <1>3, <1>4, <1>5, <1>6, <1>7, <1>9, <1>10 DEF Next, ReloadStep

\* A set of goroutines that wait for each other has no member: not a holder of
\* the read lock, so not the writer, so no blocked reader, so no Stop, so not the
\* holder of reloadMu.
LEMMA PlainFree == Inv /\ NoNesting /\ Plain => NoDeadlock
<1> SUFFICES ASSUME Inv, NoNesting, Plain,
                    NEW D \in SUBSET Procs, D # {},
                    \A p \in D : Blockers(p) \cap D # {}
             PROVE  FALSE
  BY DEF NoDeadlock
<1> USE Kinds DEF Inv
<1>1. \A q \in Procs : rcount[q] > 0 => q \in Servers \cup Requests /\ q \notin waiting
  <2>1. \A q \in Servers \cup Requests : Total(q) \in {0, 1}
    BY DEF TypeOK, Holds, ManagerHolds, RequestHolds, Plain
  <2>2. QED BY <2>1 DEF Total, TypeOK, Plain, NoNesting, Procs
<1>2. \A q \in Servers \cup Requests : q \notin waiting => Blockers(q) = {}
  BY DEF Blockers, TypeOK, Stoppers, NoNesting
<1>3. \A q \in Procs : rcount[q] > 0 => q \notin D
  BY <1>1, <1>2
<1>4. writer \notin D
  <2>1. SUFFICES ASSUME writer \in Reloads, writer \in D PROVE FALSE
    BY LocksAssumption DEF TypeOK
  <2>2. rpc[writer] \in {"deregister", "start"} /\ writer \notin waiting BY <2>1 DEF Plain
  <2>3. stopping[writer] = None BY <2>1, <2>2 DEF Serial
  <2>4. \A q \in Blockers(writer) : rcount[q] > 0
    BY <2>1, <2>2, <2>3, LocksAssumption DEF Blockers
  <2>5. QED BY <2>1, <2>4, <1>3 DEF Blockers
<1>5. \A q \in Servers \cup Requests : q \notin D
  <2>1. \A q \in Servers \cup Requests : Blockers(q) \subseteq {writer}
    BY DEF Blockers, TypeOK, Stoppers, NoNesting
  <2>2. QED BY <2>1, <1>4
<1>6. \A r \in Reloads : rpc[r] # "reloadMu" => r \notin D
  <2>1. SUFFICES ASSUME NEW r \in Reloads, rpc[r] # "reloadMu", r \in D PROVE FALSE
    OBVIOUS
  <2>2. r # writer BY <2>1, <1>4
  <2>3. Blockers(r) \subseteq Servers \cup {writer}
    BY <2>1, <2>2, LocksAssumption DEF Blockers, Plain, TypeOK, Stoppers
  <2>4. QED BY <2>1, <2>3, <1>4, <1>5
<1>7. reloadMu \notin D
  BY <1>6, LocksAssumption DEF Serial, TypeOK
<1>8. \A r \in Reloads : r \notin D
  <2>1. SUFFICES ASSUME NEW r \in Reloads, rpc[r] = "reloadMu", r \in D PROVE FALSE
    BY <1>6
  <2>2. stopping[r] = None BY <2>1 DEF Serial
  <2>3. r # writer BY <2>1, <1>4
  <2>4. Blockers(r) \subseteq {reloadMu}
    BY <2>1, <2>2, <2>3, LocksAssumption DEF Blockers, Plain
  <2>5. QED BY <2>1, <2>4, <1>7
<1>9. QED BY <1>5, <1>8 DEF NoNesting, Procs

\* The three phases of OnConfigChange, with Stop outside mcpLock, are free of
\* deadlock with manager loops and requests of any number, as long as no
\* goroutine takes mcpLock a second time.
THEOREM DeadlockFree == NoNesting => (Spec => []NoDeadlock)
<1> SUFFICES ASSUME NoNesting PROVE Spec => []NoDeadlock OBVIOUS
<1>1. Init => Plain BY Kinds DEF Init, Plain
<1>2. Inv /\ Plain /\ [Next]_vars => Plain' BY PlainStep
<1>3. Inv /\ Plain => NoDeadlock BY PlainFree
<1>4. QED BY <1>1, <1>2, <1>3, LocksInvariant, PTL DEF Spec

=============================================================================
