---------------------------- MODULE Registration ----------------------------
(***************************************************************************)
(* The controllers of A2AAgentRegistration, MCPServerRegistration and      *)
(* MCPVirtualServer (internal/controller): they turn resources into        *)
(* entries of the configuration secrets of all valid gateway extensions.   *)
(*                                                                         *)
(* Each controller has one worker and a queue.  It reads from informer     *)
(* caches: Deliver brings one object's copy up to date and enqueues what   *)
(* the controller's watches map the change to.  Its writes of an object    *)
(* are refused when the copy it works on is not the latest version.  The   *)
(* writer of the secrets is used as ConfigStore describes it, with its     *)
(* decisions to skip a write taken on the informer's copy of the secret.   *)
(*                                                                         *)
(* All registrations target one HTTPRoute and refer to one credential.     *)
(* Cached reads fail only with NotFound.                                   *)
(***************************************************************************)
EXTENDS Naturals, FiniteSets

CONSTANTS
    Resources,          \* the resources of the kind the behaviour is about
    Prefix,             \* Prefix[r]: agentPrefix of r, if it is a registration of an agent
    CrossNs,            \* the resources, and the extensions by their namespace,
                        \* whose targetRef names another namespace
    Rank,               \* Rank[r]: order of names, for equal creation times
    Gateways,
    Namespaces,         \* namespaces of gateway extensions
    GatewayOf,          \* GatewayOf[ns]: the gateway the extension targets
    Scenarios,          \* a kind of resource, the resources there are at first,
                        \* and the objects that users change; "failure": requests
                        \* fail; "lag": the informer's copy of the secrets lags;
                        \* "flicker": grants do
    MaxEvents,          \* bound: changes made by users and by other controllers
    MaxFailures,        \* bound: failed writes of secrets, and restarts
    None

Inputs == Namespaces \cup {"consent", "grant", "route", "credential"}
Objects == Resources \cup Inputs

ASSUME RegistrationAssumption ==
    /\ MaxEvents \in Nat /\ MaxFailures \in Nat
    /\ CrossNs \subseteq Resources \cup Namespaces /\ Namespaces # {}
    /\ Scenarios \subseteq [kind : {"a2a", "mcp", "vs"}, first : SUBSET Resources,
                            members : SUBSET (Objects \cup {"failure", "lag", "flicker"})]

VARIABLES
    api,        \* api[o]: the object as the API server has it
    seen,       \* seen[o]: the informer's copy
    fresh,      \* fresh[o]: is it the latest version?
    conf,       \* conf[ns][r]: entry of r in the secret of ns, or None
    confSeen,   \* the informer's copy of conf
    virtual,    \* virtual[ns]: virtualServers section of that secret
    overlooked, \* <<ns, r>>: a write of that entry was left out, on an old copy
    ext,        \* ext[ns]: the worker of MCPGatewayExtension, for that of ns
    queue,      \* the controller's work queue
    work,       \* the reconcile in progress
    kind,       \* which of the three controllers this behaviour is about
    members,    \* the objects that change in it, "failure", "lag" and "flicker"
    events, failures

vars == <<api, seen, fresh, conf, confSeen, virtual, overlooked, ext, queue, work,
          kind, members, events, failures>>
cluster == <<api, seen, fresh>>
secrets == <<conf, confSeen, virtual, overlooked>>
rest == <<kind, members, ext, events, failures>>

\* item: the resource; snap: the copy that was read; cur: is that copy still the
\* latest version; entry: what is to be written; todo: secrets left; err: an
\* error to be returned; why: the condition to be reported.
Idle == [pc |-> "idle", item |-> None, snap |-> None, cur |-> FALSE,
         entry |-> None, todo |-> {}, err |-> FALSE, why |-> "none"]

\* due: a reconcile of the extension is due; old, want: the status that was read
\* and the one to be written, None between reconciles; cur: as for work.
IdleExtension == [due |-> FALSE, old |-> None, want |-> None, cur |-> FALSE]

NewObject == [gen |-> 1, born |-> 0, deleting |-> FALSE, finalizer |-> FALSE, why |-> "none"]

\* The controllers start in the cluster of a scenario and list its resources.
Init == \E s \in Scenarios :
        /\ kind = s.kind
        /\ members = s.members
        /\ api = [o \in Objects |->
                     IF o \in Resources THEN IF o \in s.first THEN NewObject ELSE None
                     ELSE IF o \in Namespaces THEN "ready"
                     ELSE IF o = "route" THEN [accepted |-> Gateways, backend |-> 1, programmed |-> FALSE]
                     ELSE IF o \in {"grant", "consent"} THEN TRUE ELSE 1]
        /\ seen = api
        /\ fresh = [o \in Objects |-> TRUE]
        /\ conf = [ns \in Namespaces |-> [r \in Resources |-> None]]
        /\ confSeen = conf
        /\ virtual = [ns \in Namespaces |-> {}]
        /\ overlooked = {}
        /\ ext = [ns \in Namespaces |-> IdleExtension]
        /\ queue = s.first
        /\ work = Idle
        /\ events = 0
        /\ failures = 0

-----------------------------------------------------------------------------
(* Writes to the API server.                                               *)

MayFail == "failure" \in members /\ failures < MaxFailures

\* Object o becomes v; the informer's copy, and any copy a worker has, is old.
Changed(o, v) == /\ api' = [api EXCEPT ![o] = v]
                 /\ fresh' = [fresh EXCEPT ![o] = FALSE]
                 /\ UNCHANGED seen

\* A change by somebody else: a worker's copy of o is not the latest any more.
Outdated(o) == work' = IF work.item = o THEN [work EXCEPT !.cur = FALSE] ELSE work

\* The entries of rs in the secret of ns become e.
SecretWritten(ns, rs, e) ==
    /\ conf' = [conf EXCEPT ![ns] = [r \in Resources |-> IF r \in rs THEN e ELSE @[r]]]
    /\ confSeen' = IF "lag" \in members THEN confSeen ELSE conf'
    /\ overlooked' = overlooked \ ({ns} \X rs)

\* No write, since the copy has the entry as it is to be.
SecretSkipped(ns, r, e) ==
    /\ confSeen[ns][r] = e
    /\ overlooked' = IF conf[ns][r] = e THEN overlooked ELSE overlooked \cup {<<ns, r>>}
    /\ UNCHANGED <<conf, confSeen, virtual>>

Goto(pc) == work' = [work EXCEPT !.pc = pc]
Report(why, err) == work' = [work EXCEPT !.pc = "status", !.why = why, !.err = err]

\* Reconcile returns; an error or RequeueAfter puts the item back.
Finish(again) ==
    /\ work' = Idle
    /\ queue' = IF again THEN queue \cup {work.item} ELSE queue

-----------------------------------------------------------------------------
(* Reconcile, up to the point where the kinds differ.                      *)

\* Mutant: the finalizer is written again and again.
AlwaysLacksFinalizer(s) == TRUE

LacksFinalizer(s) == ~s.finalizer

\* Get, deletion and finalizer.  Adding the finalizer ends this reconcile for
\* the registrations; the virtual server's goes on.
Begin(r) ==
    LET s == seen[r]
        w(pc, cur) == [Idle EXCEPT !.pc = pc, !.item = r, !.snap = s, !.cur = cur]
        first == IF kind = "a2a" THEN "grant" ELSE IF kind = "mcp" THEN "resolve" ELSE "generate"
        again(x) == queue' = IF x THEN queue ELSE queue \ {r}
    IN  /\ work.pc = "idle"
        /\ r \in queue
        /\ IF s = None \/ (s.deleting /\ ~s.finalizer)
           THEN again(FALSE) /\ UNCHANGED <<work, cluster>>
           ELSE IF s.deleting
           THEN /\ work' =
                      IF kind = "vs" THEN w("generate", fresh[r])
                      ELSE [w("withdraw", fresh[r]) EXCEPT !.todo = Namespaces, !.why = "deleted"]
                /\ again(FALSE) /\ UNCHANGED cluster
           ELSE IF ~LacksFinalizer(s)
           THEN /\ work' = w(first, fresh[r])
                /\ again(FALSE) /\ UNCHANGED cluster
           ELSE IF ~fresh[r]
           THEN again(TRUE) /\ UNCHANGED <<work, cluster>>
           ELSE /\ Changed(r, [s EXCEPT !.finalizer = TRUE])
                /\ again(kind # "vs")
                /\ work' = IF kind # "vs" THEN work
                           ELSE [w("generate", TRUE) EXCEPT !.snap.finalizer = TRUE]
        /\ UNCHANGED <<secrets, rest>>

\* Mutant: the finalizer goes even when a secret could not be written.
WithdrawnRegardless(w) ==
    IF w.todo # {} THEN work' = w /\ UNCHANGED queue
    ELSE /\ work' = [w EXCEPT !.pc = IF w.why # "deleted" THEN "status"
                                     ELSE IF kind = "mcp" THEN "unprogram" ELSE "release"]
         /\ UNCHANGED queue

\* One secret is done.  After the last one: on deletion an error ends the
\* reconcile and the finalizer stays; otherwise the reason is reported.
Withdrawn(w) ==
    IF w.todo # {} THEN work' = w /\ UNCHANGED queue
    ELSE IF w.why = "deleted" /\ w.err THEN Finish(TRUE)
    ELSE /\ work' = [w EXCEPT !.pc = IF w.why # "deleted" THEN "status"
                                     ELSE IF kind = "mcp" THEN "unprogram" ELSE "release"]
         /\ UNCHANGED queue

\* RemoveA2AAgent, RemoveMCPServer: every secret is tried, a failure is kept.
\* A secret whose copy does not show the entry is skipped.
Withdraw(ns) ==
    LET r == work.item
        done(e) == [work EXCEPT !.todo = @ \ {ns}, !.err = @ \/ e]
    IN  /\ work.pc = "withdraw" /\ ns \in work.todo
        /\ \/ /\ SecretSkipped(ns, r, None)
              /\ Withdrawn(done(FALSE))
              /\ UNCHANGED failures
           \/ /\ confSeen[ns][r] # None /\ confSeen[ns] = conf[ns]
              /\ SecretWritten(ns, {r}, None)
              /\ Withdrawn(done(FALSE))
              /\ UNCHANGED <<virtual, failures>>
           \/ /\ MayFail
              /\ failures' = failures + 1
              /\ Withdrawn(done(TRUE))
              /\ UNCHANGED secrets
        /\ UNCHANGED <<cluster, kind, members, ext, events>>

\* The finalizer comes off, and the API server deletes the resource.
Release ==
    /\ work.pc = "release"
    /\ IF work.cur /\ api[work.item] # None
       THEN Changed(work.item, None) /\ Finish(FALSE)
       ELSE UNCHANGED cluster /\ Finish(TRUE)
    /\ UNCHANGED <<secrets, rest>>

\* updateStatus: only a changed condition is written.  The MCP controller goes
\* on to the HTTPRoute's status when the config was written.
UpdateStatus ==
    LET w == work
        written == kind = "mcp" /\ w.why = "written"
        next == IF written THEN Goto("program") /\ UNCHANGED queue ELSE Finish(w.err)
    IN  /\ w.pc = "status"
        /\ IF w.snap.why = w.why THEN next /\ UNCHANGED cluster
           ELSE IF w.cur /\ api[w.item] # None
           THEN next /\ Changed(w.item, [w.snap EXCEPT !.why = w.why])
           ELSE Finish(TRUE) /\ UNCHANGED cluster
        /\ UNCHANGED <<secrets, rest>>

-----------------------------------------------------------------------------
(* A2AAgentRegistration.                                                   *)

\* Mutant: a withdrawn grant is only reported, as any other failure.
CheckGrantKeeps ==
    /\ work.pc = "grant"
    /\ IF work.item \in CrossNs /\ ~seen["grant"] THEN Report("noGrant", FALSE)
       ELSE Goto("prefix")
    /\ UNCHANGED <<cluster, secrets, queue, rest>>

\* A route in the registration's own namespace needs no grant.
hasValidReferenceGrantForRoute(r) == r \in CrossNs => seen["grant"]

\* Without consent the config is withdrawn.
CheckGrant ==
    /\ work.pc = "grant"
    /\ IF hasValidReferenceGrantForRoute(work.item) THEN Goto("prefix")
       ELSE work' = [work EXCEPT !.pc = "withdraw", !.todo = Namespaces, !.why = "noGrant"]
    /\ UNCHANGED <<cluster, secrets, queue, rest>>

\* registrationOlder: creation time, then name.
registrationOlder(a, o, b, p) == \/ o.born < p.born
                                 \/ o.born = p.born /\ Rank[a] < Rank[b]

\* Same prefix in the same namespace.
Contenders(r) == {a \in Resources \ {r} : Prefix[a] = Prefix[r]}

\* olderPrefixOwner: the contenders that win against r, except deleted ones.
olderPrefixOwners(r, s) ==
    {a \in Contenders(r) : /\ seen[a] # None
                           /\ ~seen[a].deleting
                           /\ registrationOlder(a, seen[a], r, s)}

\* A registration that is not the oldest withdraws what it raced into writing.
CheckPrefix ==
    /\ work.pc = "prefix"
    /\ IF olderPrefixOwners(work.item, work.snap) # {}
       THEN work' = [work EXCEPT !.pc = "withdraw", !.todo = Namespaces, !.why = "collision"]
       ELSE Goto("resolve")
    /\ UNCHANGED <<cluster, secrets, queue, rest>>

-----------------------------------------------------------------------------
(* Both kinds of registration: where the entry goes and what it holds.     *)

\* The gateways that have accepted the HTTPRoute.
findValidGatewaysForHTTPRoute(view) == view["route"].accepted

\* The route names, or its hostname fits, the listener of ns on gateway g.
httpRouteAttachesToListener(g, ns) == GatewayOf[ns] = g

\* The ReferenceGrant an extension needs for a gateway of another namespace.
HasValidReferenceGrant(ns, view) == ns \in CrossNs => view["consent"]

\* In the gateway's own namespace an extension need not be ready.
ValidExtension(ns, view) ==
    /\ view[ns] \in {"ready", "unready"}
    /\ HasValidReferenceGrant(ns, view)
    /\ ns \in CrossNs => view[ns] = "ready"

FindValidMCPGatewayExtsForGateway(g, view) ==
    {ns \in Namespaces : ValidExtension(ns, view) /\ httpRouteAttachesToListener(g, ns)}

\* The A2A controller takes what extensions there are; the MCP controller gives
\* up when one of the gateways has none.
a2aTargets(view) ==
    UNION {FindValidMCPGatewayExtsForGateway(g, view) : g \in findValidGatewaysForHTTPRoute(view)}

mcpTargets(view) ==
    IF \E g \in findValidGatewaysForHTTPRoute(view) : FindValidMCPGatewayExtsForGateway(g, view) = {}
    THEN {} ELSE a2aTargets(view)

TargetNamespaces(view) == IF kind = "mcp" THEN mcpTargets(view) ELSE a2aTargets(view)

\* From the API server: a secret without the label or the key is an error.
readLabeledCredential == api["credential"]

\* The address and the protocol of the route's backend; None: not a valid one.
buildServerInfoFromHTTPRoute(view) == view["route"].backend

\* From specification, credential and route; the same for both kinds.
buildMCPServerConfig(s, view) == <<s.gen, readLabeledCredential, buildServerInfoFromHTTPRoute(view)>>
buildA2AAgentConfig(s, view) == <<s.gen, readLabeledCredential, buildServerInfoFromHTTPRoute(view)>>

\* getTargetHTTPRoute, its gateways, their extensions and the entry.  No
\* accepting gateway, a bad backend and a bad credential are errors.
Resolve ==
    LET targets == TargetNamespaces(seen) IN
    /\ work.pc = "resolve"
    /\ IF findValidGatewaysForHTTPRoute(seen) = {} THEN Report("noGateway", TRUE)
       ELSE IF targets = {} THEN Report("noExtension", FALSE)
       ELSE IF buildServerInfoFromHTTPRoute(seen) = None THEN Report("noBackend", TRUE)
       ELSE IF readLabeledCredential = None THEN Report("noCredential", TRUE)
       ELSE work' = [work EXCEPT !.pc = "upsert", !.todo = targets,
                                 !.entry = IF kind = "mcp" THEN buildMCPServerConfig(work.snap, seen)
                                           ELSE buildA2AAgentConfig(work.snap, seen)]
    /\ UNCHANGED <<cluster, secrets, queue, rest>>

\* UpsertMCPServer, UpsertA2AAgent for one namespace; a failure ends the loop,
\* after the last one the success is reported.
Upsert(ns) ==
    LET r == work.item
        e == work.entry
        done == IF work.todo = {ns} THEN Report("written", FALSE)
                ELSE work' = [work EXCEPT !.todo = @ \ {ns}]
    IN  /\ work.pc = "upsert" /\ ns \in work.todo
        /\ \/ SecretSkipped(ns, r, e) /\ done /\ UNCHANGED failures
           \/ /\ confSeen[ns][r] # e /\ confSeen[ns] = conf[ns]
              /\ SecretWritten(ns, {r}, e)
              /\ done
              /\ UNCHANGED <<virtual, failures>>
           \/ /\ MayFail
              /\ failures' = failures + 1
              /\ Report("writeFailed", TRUE)
              /\ UNCHANGED secrets
        /\ UNCHANGED <<cluster, queue, kind, members, ext, events>>

-----------------------------------------------------------------------------
(* MCPServerRegistration: the condition Programmed of the HTTPRoute.       *)

\* updateHTTPRouteStatus: set after the config was written, removed on deletion,
\* on the informer's copy of the route.
UpdateHTTPRouteStatus ==
    LET on == work.pc = "program"
        next == IF on THEN Finish(FALSE) ELSE Goto("release") /\ UNCHANGED queue
    IN  /\ work.pc \in {"program", "unprogram"}
        /\ IF seen["route"].programmed = on THEN next /\ UNCHANGED cluster
           ELSE IF fresh["route"]
           THEN next /\ Changed("route", [seen["route"] EXCEPT !.programmed = on])
           ELSE Finish(TRUE) /\ UNCHANGED cluster
        /\ UNCHANGED <<secrets, rest>>

-----------------------------------------------------------------------------
(* MCPVirtualServer: the whole section is written anew each time.          *)

\* The virtual servers a view shows, deleted ones left out.
VirtualServers(view) == {<<v, view[v].gen>> : v \in {u \in Resources : view[u] # None /\ ~view[u].deleting}}

\* After the last namespace: collected errors are returned, and a deleted
\* virtual server loses its finalizer.
Written(w) ==
    IF w.todo = {} /\ (w.err \/ ~w.snap.deleting) THEN Finish(w.err)
    ELSE /\ work' = IF w.todo # {} THEN w ELSE [w EXCEPT !.pc = "release"]
         /\ UNCHANGED queue

\* generateVirtualServerConfig, and ListMCPGatewayExtensionNamespaces.
Generate ==
    /\ work.pc = "generate"
    /\ Written([work EXCEPT !.pc = "write", !.entry = VirtualServers(seen),
                            !.todo = {ns \in Namespaces : seen[ns] \in {"ready", "unready"}}])
    /\ UNCHANGED <<cluster, secrets, rest>>

\* WriteVirtualServerConfig for one namespace; all of them are tried.
WriteVirtualServers(ns) ==
    LET done(e) == [work EXCEPT !.todo = @ \ {ns}, !.err = @ \/ e] IN
    /\ work.pc = "write" /\ ns \in work.todo
    /\ \/ /\ virtual' = [virtual EXCEPT ![ns] = work.entry]
          /\ Written(done(FALSE))
          /\ UNCHANGED failures
       \/ /\ MayFail
          /\ failures' = failures + 1
          /\ Written(done(TRUE))
          /\ UNCHANGED virtual
    /\ UNCHANGED <<cluster, conf, confSeen, overlooked, kind, members, ext, events>>

-----------------------------------------------------------------------------
(* Watches.                                                                *)

Existing(view, rs) == {r \in rs : view[r] # None}

\* Registrations are filtered by generation, which a deletion increases too.
ForRegistration(o, old, new, view) ==
    IF \/ old = None \/ new = None \/ old.gen # new.gen \/ old.deleting # new.deleting
    THEN {o} \cup (IF kind = "a2a" THEN Existing(view, Contenders(o)) ELSE {}) ELSE {}

\* No filter: the status is watched too, and every extension concerns them all.
ForVirtualServer(o) == {o}

ForHTTPRoute(old, new, view) == Existing(view, Resources)
ForReferenceGrant(view) == Existing(view, CrossNs \cap Resources)
ForSecret(view) == Existing(view, Resources)
ForMCPGatewayExtension(view) == Existing(view, Resources)

\* What a change of object o from old to new puts into the queue.
Enqueued(o, old, new, view) ==
    CASE o \in Resources -> IF kind = "vs" THEN ForVirtualServer(o)
                            ELSE ForRegistration(o, old, new, view)
      [] o = "grant" /\ kind = "a2a" -> ForReferenceGrant(view)
      [] o = "route" /\ kind # "vs" -> ForHTTPRoute(old, new, view)
      [] o = "credential" /\ kind # "vs" -> ForSecret(view)
      [] o \in Namespaces -> ForMCPGatewayExtension(view)
      [] OTHER -> {}

\* The extensions it concerns: its own events, status included, and the grant's.
ForExtension(o, view) ==
    IF o = "consent" THEN {ns \in CrossNs \cap Namespaces : view[ns] # "absent"}
    ELSE {o} \cap Namespaces

\* The informer learns the latest version of o.
Deliver(o) ==
    /\ ~fresh[o]
    /\ fresh' = [fresh EXCEPT ![o] = TRUE]
    /\ seen' = [seen EXCEPT ![o] = api[o]]
    /\ queue' = queue \cup Enqueued(o, seen[o], api[o], seen')
    /\ ext' = [ns \in Namespaces |->
                  IF ns \in ForExtension(o, seen') THEN [ext[ns] EXCEPT !.due = TRUE] ELSE ext[ns]]
    /\ UNCHANGED <<api, secrets, work, kind, members, events, failures>>

DeliverSecret(ns) ==
    /\ confSeen[ns] # conf[ns]
    /\ confSeen' = [confSeen EXCEPT ![ns] = conf[ns]]
    /\ UNCHANGED <<cluster, conf, virtual, overlooked, queue, work, rest>>

-----------------------------------------------------------------------------
(* Users and other controllers.                                            *)

Event == /\ events < MaxEvents
         /\ events' = events + 1
         /\ UNCHANGED <<queue, kind, members, failures>>

\* Creation times have seconds: a later resource may have the same one.  A watch
\* shows the deletion of a resource before one of the same name.
CreateResource(r) ==
    /\ r \in members /\ api[r] = None /\ fresh[r]
    /\ \E t \in IF kind = "a2a" THEN {0, 1} ELSE {0} :
          /\ \A a \in Resources : api[a] # None => t >= api[a].born
          /\ Changed(r, [NewObject EXCEPT !.born = t])
    /\ Outdated(r) /\ Event /\ UNCHANGED <<secrets, ext>>

EditResource(r) ==
    /\ r \in members /\ api[r] # None /\ ~api[r].deleting
    /\ Changed(r, [api[r] EXCEPT !.gen = @ + 1])
    /\ Outdated(r) /\ Event /\ UNCHANGED <<secrets, ext>>

\* With a finalizer the resource is only marked.
DeleteResource(r) ==
    /\ r \in members /\ api[r] # None /\ ~api[r].deleting
    /\ Changed(r, IF api[r].finalizer THEN [api[r] EXCEPT !.deleting = TRUE] ELSE None)
    /\ Outdated(r) /\ Event /\ UNCHANGED <<secrets, ext>>

\* A ReferenceGrant is created or deleted; the route is accepted by other
\* gateways or gets another backend; the credential is changed, or loses its label or key.
ChangeGrant == /\ "grant" \in members
               /\ Changed("grant", ~api["grant"])
               /\ Event /\ UNCHANGED <<secrets, work, ext>>
ChangeRoute == /\ "route" \in members
               /\ \/ \E gs \in SUBSET Gateways \ {api["route"].accepted} :
                        Changed("route", [api["route"] EXCEPT !.accepted = gs])
                  \/ \E b \in {1, 2, None} \ {api["route"].backend} :
                        Changed("route", [api["route"] EXCEPT !.backend = b])
               /\ Event /\ UNCHANGED <<secrets, work, ext>>
ChangeCredential == /\ "credential" \in members
                    /\ Changed("credential", IF api["credential"] = 1 THEN None ELSE 1)
                    /\ Event /\ UNCHANGED <<secrets, work, ext>>

-----------------------------------------------------------------------------
(* The controller of MCPGatewayExtension, as far as it writes the config    *)
(* secret and the status that the others read (see GatewayExtension).       *)

\* WriteEmptyConfig: every section goes, whoever wrote it.
WriteEmptyConfig(ns) ==
    /\ confSeen[ns] = conf[ns]
    /\ SecretWritten(ns, Resources, None)
    /\ virtual' = [virtual EXCEPT ![ns] = {}]

\* validateGatewayTarget without a grant.
Ungranted(ns) == seen[ns] \in {"ready", "unready"} /\ ~HasValidReferenceGrant(ns, seen)

\* Reconcile: handleDeletion, and validateGatewayTarget without a grant, empty
\* the secret, every time; a failure ends the reconcile with an error.
ExtensionBegins(ns) ==
    LET emptied == seen[ns] = "deleting" \/ Ungranted(ns)
        want == IF seen[ns] = "deleting" THEN "absent" ELSE IF emptied THEN "unready" ELSE "ready"
        begun == [due |-> FALSE, old |-> seen[ns], want |-> want, cur |-> fresh[ns]]
    IN  /\ ext[ns].due /\ ext[ns].want = None
        /\ \/ /\ ~emptied
              /\ ext' = [ext EXCEPT ![ns] = IF seen[ns] = "absent" THEN IdleExtension ELSE begun]
              /\ UNCHANGED <<secrets, failures>>
           \/ /\ emptied
              /\ WriteEmptyConfig(ns)
              /\ ext' = [ext EXCEPT ![ns] = begun]
              /\ UNCHANGED failures
           \/ /\ emptied /\ MayFail
              /\ failures' = failures + 1
              /\ UNCHANGED <<secrets, ext>>
        /\ UNCHANGED <<cluster, queue, work, kind, members, events>>

\* updateStatus, or the finalizer comes off: refused when the copy is old.
ExtensionReports(ns) ==
    LET e == ext[ns]
        write == e.old # e.want
    IN  /\ e.want # None
        /\ IF write /\ e.cur THEN Changed(ns, e.want) ELSE UNCHANGED cluster
        /\ ext' = [ext EXCEPT ![ns] = [IdleExtension EXCEPT !.due = e.due \/ (write /\ ~e.cur)]]
        /\ UNCHANGED <<secrets, queue, work, kind, members, events, failures>>

\* Users delete and create an extension, or a ReferenceGrant for extensions.
\* Unless grants flicker, one that was deleted is not created anew before the
\* extensions that need it report the lack of it.
DeleteExtension(ns) ==
    /\ ns \in members /\ api[ns] \in {"ready", "unready"}
    /\ Changed(ns, "deleting")
    /\ ext' = [ext EXCEPT ![ns].cur = FALSE]
    /\ Event /\ UNCHANGED <<secrets, work>>
CreateExtension(ns) ==
    /\ ns \in members /\ api[ns] = "absent" /\ fresh[ns]
    /\ Changed(ns, "unready")
    /\ Event /\ UNCHANGED <<secrets, work, ext>>
ChangeConsent == /\ "consent" \in members
                 /\ \/ api["consent"] \/ "flicker" \in members
                    \/ \A ns \in CrossNs \cap Namespaces : api[ns] # "ready"
                 /\ Changed("consent", ~api["consent"])
                 /\ Event /\ UNCHANGED <<secrets, work, ext>>

\* A reconcile of the extension would change neither its secret nor its status.
Steady(ns, view) == \/ view[ns] = "absent"
                    \/ view[ns] = "ready" /\ HasValidReferenceGrant(ns, view)

\* The controller process restarts: it lists everything and enqueues it.
Restart ==
    /\ MayFail
    /\ failures' = failures + 1
    /\ seen' = api
    /\ fresh' = [o \in Objects |-> TRUE]
    /\ confSeen' = conf
    /\ work' = Idle
    /\ queue' = Existing(api, Resources)
    /\ ext' = [ns \in Namespaces |-> [IdleExtension EXCEPT !.due = ~Steady(ns, api)]]
    /\ UNCHANGED <<api, conf, virtual, overlooked, kind, members, events>>

-----------------------------------------------------------------------------
Reconcile == \/ Release \/ UpdateStatus
             \/ CheckGrant \/ CheckPrefix \/ Resolve \/ UpdateHTTPRouteStatus \/ Generate
             \/ \E ns \in Namespaces : Withdraw(ns) \/ Upsert(ns) \/ WriteVirtualServers(ns)

Users == \/ \E r \in Resources : CreateResource(r) \/ EditResource(r) \/ DeleteResource(r)
         \/ ChangeGrant \/ ChangeConsent \/ ChangeRoute \/ ChangeCredential
         \/ \E ns \in Namespaces : DeleteExtension(ns) \/ CreateExtension(ns)

Next == \/ Reconcile
        \/ \E r \in Resources : Begin(r)
        \/ \E o \in Objects : Deliver(o)
        \/ \E ns \in Namespaces : DeliverSecret(ns) \/ ExtensionBegins(ns) \/ ExtensionReports(ns)
        \/ Users
        \/ Restart

Spec == Init /\ [][Next]_vars

\* Workers and each of the watches go on; a work queue serves its items in turn.
FairSpec == /\ Spec
            /\ WF_vars(Reconcile)
            /\ \A r \in Resources : SF_vars(Begin(r))
            /\ \A o \in Objects : WF_vars(Deliver(o))
            /\ \A ns \in Namespaces : WF_vars(DeliverSecret(ns))
            /\ \A ns \in Namespaces : WF_vars(ExtensionBegins(ns) \/ ExtensionReports(ns))

-----------------------------------------------------------------------------
Entries == (Nat \X Nat \X {1, 2}) \cup {None}
Objs == [gen : Nat, born : Nat, deleting : BOOLEAN, finalizer : BOOLEAN,
         why : {"none", "written", "noGrant", "collision", "noGateway", "noExtension",
                "noBackend", "noCredential", "writeFailed"}] \cup {None}

\* Every variable has its type, and a copy that no event is due for is the
\* latest version.
TypeOK ==
    /\ \A r \in Resources : api[r] \in Objs /\ seen[r] \in Objs
    /\ \A ns \in Namespaces : api[ns] \in {"ready", "unready", "deleting", "absent"}
    /\ fresh \in [Objects -> BOOLEAN]
    /\ conf \in [Namespaces -> [Resources -> Entries]]
    /\ confSeen \in [Namespaces -> [Resources -> Entries]]
    /\ queue \subseteq Resources
    /\ work.item \in Resources \cup {None} /\ work.todo \subseteq Namespaces
    /\ \A o \in Objects : fresh[o] => seen[o] = api[o]

\* A registration that is gone has left no entry behind, except where its
\* withdrawal was skipped since the informer's copy of the secret did not show
\* the entry yet (removeNamedEntry): failed writes, conflicts, restarts and
\* extensions that come and go do not let the finalizer come off too early.
FinalizerGuardsConfig ==
    \A r \in Resources, ns \in Namespaces :
        api[r] = None /\ conf[ns][r] # None => <<ns, r>> \in overlooked

\* Without the exception, as the comment on the deletion of an agent has it:
\* "config must be cleaned up before the finalizer comes off".
NothingLeftBehind ==
    \A r \in Resources : api[r] = None => \A ns \in Namespaces : conf[ns][r] = None

\* No copy is old, no reconcile is due.
Quiet == /\ \A o \in Objects : fresh[o]
         /\ queue = {} /\ work.pc = "idle"
         /\ \A ns \in Namespaces : ~ext[ns].due /\ ext[ns].want = None
         /\ confSeen = conf

Live(r) == api[r] # None /\ ~api[r].deleting

\* Consent and prefix as they are: the registration may be served.
Entitled(r) ==
    /\ kind = "a2a" /\ r \in CrossNs => api["grant"]
    /\ \A a \in Contenders(r) : kind = "a2a" /\ Live(a) =>
                                    ~registrationOlder(a, api[a], r, api[r])

Servable == /\ api["route"].accepted # {}
            /\ api["route"].backend # None
            /\ api["credential"] # None
            /\ TargetNamespaces(api) # {}

\* What the secrets should hold of r, as far as the code decides it.
Settled(r) ==
    Live(r) =>
      IF kind = "vs" THEN \A ns \in Namespaces : ValidExtension(ns, api) => <<r, api[r].gen>> \in virtual[ns]
      ELSE IF ~Entitled(r) THEN \A ns \in Namespaces : conf[ns][r] = None \/ <<ns, r>> \in overlooked
      ELSE Servable =>
             /\ \A ns \in TargetNamespaces(api) :
                  \/ conf[ns][r] = <<api[r].gen, api["credential"], api["route"].backend>>
                  \/ <<ns, r>> \in overlooked
             /\ kind = "mcp" => api["route"].programmed

\* When the controllers are quiet, the secrets agree with the resources: every
\* change has reached the right reconcile, whatever the order of the informers,
\* an agent without consent or whose prefix an older one has is nowhere, and
\* the others, and the virtual servers, are wherever there is a valid extension,
\* as they are now; and a route in use is marked Programmed, though others that
\* shared it are deleted.  The exception is an entry whose last write was left
\* out on an old copy of the secret.  Nothing is said of the secret of an
\* extension without a grant: each of its reconciles empties it, the one that
\* follows its status update too, after virtual servers were written there.
QuietMeansSettled == Quiet => \A r \in Resources : Settled(r)

\* Once nobody changes anything, all of this holds from some point on.
EventuallySettled == <>[](\A r \in Resources : Settled(r))
=============================================================================
