-------------------------- MODULE GatewayExtension --------------------------
(***************************************************************************)
(* The controller of MCPGatewayExtension (internal/controller): it decides *)
(* which extension has a gateway's listener port and a namespace, provides *)
(* keys, the configuration secret and the broker-router's own resources,   *)
(* and programs the gateway with an EnvoyFilter and a listener condition.  *)
(*                                                                         *)
(* One worker reconciles one extension at a time; its reads come from      *)
(* informers (...Seen), except those of secrets, and its updates are       *)
(* refused when the copy is old.  All extensions target one gateway.  The  *)
(* informer of the extensions shows changes in the order they happened.    *)
(***************************************************************************)
EXTENDS Naturals, Sequences, FiniteSets

CONSTANTS
    Exts,
    Namespaces, NsOf,       \* NsOf[e]: namespace of e
    Listeners, ListenerOf,  \* ListenerOf[e]: first sectionName of e's targetRef
    PortOf,                 \* PortOf[l]: port of listener l
    Cross,                  \* extensions whose gateway is in another namespace
    Scenarios,              \* see Init
    MaxEvents,              \* bound: changes by users
    MaxFailures,            \* bound: failed requests and restarts
    None

\* The resources that reconcileBrokerRouter keeps, in its order.
Kinds == <<"serviceaccount", "deployment", "service", "httproute", "tokens">>
KindSet == {Kinds[i] : i \in 1..Len(Kinds)}

ASSUME ExtensionAssumption ==
    /\ NsOf \in [Exts -> Namespaces] /\ ListenerOf \in [Exts -> Listeners]
    /\ Cross \subseteq Exts /\ MaxEvents \in Nat /\ MaxFailures \in Nat
    /\ \A s \in Scenarios : /\ s.first \subseteq Exts /\ s.born \in [s.first -> Nat]
                            /\ s.kinds \subseteq KindSet
                            /\ s.generate \in BOOLEAN /\ Exts \cap s.changes \subseteq s.first

VARIABLES
    ext, extSeen, extFresh,             \* ext[e]: the extension, or None
    gateway, gatewaySeen, gatewayFresh, \* is the target valid; which extension uses a listener
    grant,                              \* is there a ReferenceGrant for Cross?
    filter, filterSeen, filterDue,    \* filter[ns]: EnvoyFilter of a namespace, or None
    own, ownSeen, ownDue,             \* own[ns][k]: a resource of the broker-router, or None
    up,                                 \* up[ns]: are the deployment's replicas ready?
    public, private, pairs,             \* halves of a key pair: [pair, owner]; pairs made
    signing, keys,                      \* session signing key: [key, labelled, owner], or
                                        \* None; keys made (key 0: an empty one)
    bundle,                             \* bundle[ns]: CA bundle secret referred to; 0: not valid
    conf,                               \* config secret: its CA bundle (0: none), or None
    queue, work,
    scenario, events, failures

exts == <<ext, extSeen, extFresh>>
gateways == <<gateway, gatewaySeen, gatewayFresh, grant>>
filters == <<filter, filterSeen, filterDue>>
owned == <<own, ownSeen, ownDue, up>>
secrets == <<public, private, pairs, signing, keys, bundle, conf>>
rest == <<scenario, events, failures>>
vars == <<exts, gateways, filters, owned, secrets, queue, work, rest>>

Idle == [pc |-> "idle", item |-> None, snap |-> None, why |-> "none", pub |-> FALSE, read |-> None]
NewExt(e, t) == [born |-> t, listener |-> ListenerOf[e], tokens |-> TRUE, routes |-> TRUE,
                 deleting |-> FALSE, finalizer |-> FALSE, why |-> "none"]

(* The parts of a resource that the controller manages, for an extension s. *)

\* derivePublicHost, derivePrivateHost: from the listener.
hosts(s) == s.listener

\* The same service account and service for every specification.
buildBrokerRouterServiceAccount(s) == <<>>
buildBrokerRouterService(s) == <<>>

\* Hosts and flags are in the command; keys are referred to by fixed names.
buildBrokerRouterDeployment(s) == <<hosts(s), s.tokens>>

\* The routes attach to the listener, under the public host.
buildGatewayHTTPRoute(s) == <<hosts(s), s.listener>>
buildTokensHTTPRoute(s) == <<hosts(s), s.listener>>

Desired(k, s) == CASE k = "serviceaccount" -> buildBrokerRouterServiceAccount(s)
                   [] k = "service" -> buildBrokerRouterService(s)
                   [] k = "deployment" -> buildBrokerRouterDeployment(s)
                   [] k = "httproute" -> buildGatewayHTTPRoute(s)
                   [] k = "tokens" -> buildTokensHTTPRoute(s)

\* A resource as created: nothing added by users; owned by one creation of e.
Built(k, e, s) == [managed |-> Desired(k, s), user |-> FALSE, owner |-> [ext |-> e, born |-> s.born]]

\* buildEnvoyFilter: the filter chain of the listener, labelled with e.
buildEnvoyFilter(e, s) == [by |-> e, listener |-> s.listener, managed |-> TRUE]

\* A scenario: the extensions there are at first and their creation times, the
\* kinds of resources that are followed, whether a key pair is generated, and
\* what may change.
Init == \E s \in Scenarios :
    /\ scenario = s
    /\ ext = [e \in Exts |-> IF e \in s.first THEN NewExt(e, s.born[e]) ELSE None]
    /\ extSeen = ext /\ extFresh = TRUE
    /\ gateway = [ok |-> TRUE, inUse |-> [l \in Listeners |-> None]]
    /\ gatewaySeen = gateway /\ gatewayFresh = TRUE /\ grant = TRUE
    /\ filter = [ns \in Namespaces |-> None]
    /\ filterSeen = filter /\ filterDue = [ns \in Namespaces |-> {}]
    /\ own = [ns \in Namespaces |-> [k \in KindSet |-> None]]
    /\ ownSeen = own /\ ownDue = [ns \in Namespaces |-> [k \in KindSet |-> {}]]
    /\ up = [ns \in Namespaces |-> FALSE]
    /\ public = [ns \in Namespaces |-> None] /\ private = public /\ pairs = 0
    /\ signing = [ns \in Namespaces |-> None] /\ keys = 0
    /\ bundle = [ns \in Namespaces |-> 1]
    /\ conf = [ns \in Namespaces |-> None]
    /\ queue = s.first /\ work = Idle /\ events = 0 /\ failures = 0

-----------------------------------------------------------------------------
\* A write: informers have an event to deliver, to the extension that the
\* labels, or the owner, of the old and of the new version name.
FilterWritten(ns, v) ==
    /\ filter' = [filter EXCEPT ![ns] = v]
    /\ filterDue' = [filterDue EXCEPT ![ns] = @ \cup {f.by : f \in {filter[ns], v} \ {None}}]
    /\ UNCHANGED filterSeen

OwnWritten(ns, k, v) ==
    /\ own' = [own EXCEPT ![ns][k] = v]
    /\ ownDue' = [ownDue EXCEPT ![ns][k] = @ \cup {o.owner.ext : o \in {own[ns][k], v} \ {None}}]
    /\ up' = IF k = "deployment" THEN [up EXCEPT ![ns] = FALSE] ELSE up
    /\ UNCHANGED ownSeen

ExtWritten(e, v) == ext' = [ext EXCEPT ![e] = v] /\ extFresh' = FALSE /\ UNCHANGED extSeen

GatewayWritten(v) == gateway' = v /\ gatewayFresh' = FALSE /\ UNCHANGED <<gatewaySeen, grant>>

(* Steps of a reconcile.                                                   *)

\* The next kind that is followed, in the order of reconcileBrokerRouter.
KindAfter(n) ==
    LET later == {i \in (n + 1)..Len(Kinds) : Kinds[i] \in scenario.kinds}
    IN  IF later = {} THEN "replicas" ELSE Kinds[CHOOSE i \in later : \A j \in later : i <= j]

this == work.item
ns_ == NsOf[this]
Owner == [ext |-> this, born |-> work.snap.born]
Goto(pc) == work' = [work EXCEPT !.pc = pc] /\ UNCHANGED queue
Report(why) == work' = [work EXCEPT !.pc = "status", !.why = why] /\ UNCHANGED queue
Finish(again) == work' = Idle /\ queue' = IF again THEN queue \cup {this} ELSE queue

Finalized(s) == s.finalizer

\* Get; deletion; ensureFinalizer, whose own update triggers the next reconcile.
Begin(e) ==
    LET s == extSeen[e]
        go(pc) == work' = [Idle EXCEPT !.pc = pc, !.item = e, !.snap = s]
    IN  /\ work.pc = "idle" /\ e \in queue
        /\ IF s = None \/ (s.deleting /\ ~s.finalizer)
           THEN queue' = queue \ {e} /\ UNCHANGED <<exts, work>>
           ELSE IF s.deleting \/ Finalized(s)
           THEN /\ go(IF s.deleting THEN "unlist" ELSE "namespace")
                /\ queue' = queue \ {e} /\ UNCHANGED exts
           ELSE IF ext[e] = s
           THEN /\ ExtWritten(e, [s EXCEPT !.finalizer = TRUE])
                /\ queue' = queue \ {e} /\ UNCHANGED work
           ELSE UNCHANGED <<exts, work, queue>>
        /\ UNCHANGED <<gateways, filters, owned, secrets, rest>>

(* handleDeletion.                                                         *)

\* removeGatewayListenerStatus: whoever set the condition; a conflict is ignored.
Unlist ==
    LET l == work.snap.listener IN
    /\ work.pc = "unlist"
    /\ IF gatewaySeen.inUse[l] # None /\ gatewayFresh
       THEN GatewayWritten([gateway EXCEPT !.inUse[l] = None]) ELSE UNCHANGED gateways
    /\ Goto("unfilter")
    /\ UNCHANGED <<exts, filters, owned, secrets, rest>>

\* deleteEnvoyFilter: only what the cache shows.
DeleteEnvoyFilter ==
    /\ work.pc = "unfilter"
    /\ IF filterSeen[ns_] # None /\ filter[ns_] # None
       THEN FilterWritten(ns_, None) ELSE UNCHANGED filters
    /\ Goto("empty")
    /\ UNCHANGED <<exts, gateways, owned, secrets, rest>>

\* WriteEmptyConfig, on deletion and when the grant is gone.
WriteEmptyConfig ==
    /\ work.pc = "empty"
    /\ conf' = [conf EXCEPT ![ns_] = 0]
    /\ IF work.snap.deleting THEN Goto("release") ELSE Report("noGrant")
    /\ UNCHANGED <<exts, gateways, filters, owned, public, private, pairs, signing, keys, bundle, rest>>

\* The finalizer comes off; the API server deletes the extension.
Release ==
    /\ work.pc = "release"
    /\ IF ext[this] = work.snap THEN ExtWritten(this, None) /\ Finish(FALSE) ELSE UNCHANGED exts /\ Finish(TRUE)
    /\ UNCHANGED <<gateways, filters, owned, secrets, rest>>

(* reconcileActive.                                                        *)

\* findOldestExtension: of equally old ones the first in the list, whose order
\* is that of a map: any.
oldestOf(S) == {e \in S : ~\E d \in S : extSeen[d].born < extSeen[e].born}

\* checkNamespaceConflict: deleted ones do not count.
CheckNamespaceConflict ==
    LET active == {e \in Exts : /\ extSeen[e] # None /\ ~extSeen[e].deleting
                                /\ NsOf[e] = ns_}
        oldest == oldestOf(active)
    IN  /\ work.pc = "namespace"
        /\ \/ /\ Cardinality(active) <= 1 \/ this \in oldest
              /\ Goto("target")
           \/ /\ Cardinality(active) > 1 /\ oldest # {this}
              /\ Report("conflict")
        /\ UNCHANGED <<exts, gateways, filters, owned, secrets, rest>>

\* Mutant: listeners are compared instead of their ports.
PortConflictByListener ==
    \E d \in Exts \ {this} : /\ extSeen[d] # None
                             /\ extSeen[d].listener = work.snap.listener
                             /\ extSeen[d].born < work.snap.born

\* An older extension, deleted or not, has the port.
PortConflict ==
    \E d \in Exts \ {this} : /\ extSeen[d] # None
                             /\ PortOf[extSeen[d].listener] = PortOf[work.snap.listener]
                             /\ extSeen[d].born < work.snap.born

\* MCPGatewayExtensionHasValidReferenceGrant.
HasValidReferenceGrant(e) == e \in Cross => grant

\* findListenerConfigByName, listenerAllowsNamespace: the gateway exists, and
\* has the listener with a host and routes from here allowed.
ListenerUsable == gatewaySeen.ok

\* EnsureConfigExists.
Existing(c) == IF c = None THEN 0 ELSE c

\* validateGatewayTarget: gateway and listener, then the grant, without which
\* the config is emptied.  checkListenerConflict, with the same copy of the
\* gateway.
ValidateGatewayTarget ==
    /\ work.pc = "target"
    /\ \/ ~ListenerUsable /\ Report("invalid") /\ UNCHANGED conf
       \/ ListenerUsable /\ ~HasValidReferenceGrant(this) /\ Goto("empty") /\ UNCHANGED conf
       \/ /\ ListenerUsable /\ HasValidReferenceGrant(this)
          /\ IF PortConflict THEN Report("conflict") /\ UNCHANGED conf
             ELSE /\ conf' = [conf EXCEPT ![ns_] = Existing(@)]
                  /\ Goto(IF scenario.generate THEN "public?" ELSE "signing?")
    /\ UNCHANGED <<exts, gateways, filters, owned, public, private, pairs, signing, keys, bundle, rest>>

(* reconcileGeneratedTrustedHeaders: reads and writes go to the API server. *)

ReadPublic == /\ work.pc = "public?"
              /\ work' = [work EXCEPT !.pub = public[ns_] # None, !.pc = "private?"]
              /\ UNCHANGED <<exts, gateways, filters, owned, secrets, queue, rest>>

ReadPrivate ==
    /\ work.pc = "private?"
    /\ Goto(IF work.pub /\ private[ns_] # None THEN "signing?"
            ELSE IF work.pub \/ private[ns_] # None THEN "orphan" ELSE "public")
    /\ UNCHANGED <<exts, gateways, filters, owned, secrets, rest>>

\* Mutant: the half that is left is kept.
OrphanKept ==
    /\ work.pc = "orphan"
    /\ Goto(IF work.pub THEN "private" ELSE "public")
    /\ pairs' = pairs + 1
    /\ UNCHANGED <<exts, gateways, filters, owned, public, private, signing, keys, bundle, conf, rest>>

\* A half without the other is deleted.
DeleteOrphan ==
    /\ work.pc = "orphan"
    /\ IF work.pub THEN public' = [public EXCEPT ![ns_] = None] /\ UNCHANGED private
       ELSE private' = [private EXCEPT ![ns_] = None] /\ UNCHANGED public
    /\ Goto("public")
    /\ UNCHANGED <<exts, gateways, filters, owned, pairs, signing, keys, bundle, conf, rest>>

\* buildTrustedHeadersSecrets: a half of the pair generated last.
Half(p) == [pair |-> p, owner |-> Owner]

\* The pair is generated; the first Create fails if there is one.
CreatePublic ==
    /\ work.pc = "public"
    /\ IF public[ns_] # None THEN Finish(TRUE) /\ UNCHANGED <<public, pairs>>
       ELSE /\ pairs' = pairs + 1
            /\ public' = [public EXCEPT ![ns_] = Half(pairs')]
            /\ Goto("private")
    /\ UNCHANGED <<exts, gateways, filters, owned, private, signing, keys, bundle, conf, rest>>

CreatePrivate ==
    /\ work.pc = "private"
    /\ IF private[ns_] # None THEN Finish(TRUE) /\ UNCHANGED private
       ELSE private' = [private EXCEPT ![ns_] = Half(pairs)] /\ Goto("signing?")
    /\ UNCHANGED <<exts, gateways, filters, owned, public, pairs, signing, keys, bundle, conf, rest>>

\* Mutant: a repair makes a new key.
RepairedAnew(s) == [key |-> keys + 1, labelled |-> TRUE, owner |-> Owner]

\* Labels and owner are repaired in place; a key is made only if there is none.
Repaired(s) == [key |-> IF s.key = 0 THEN keys + 1 ELSE s.key, labelled |-> TRUE, owner |-> Owner]

\* The secret as created, with a new random key.
NewSigningKey == [key |-> keys + 1, labelled |-> TRUE, owner |-> Owner]

\* reconcileSessionSigningKey: what the secret is to be.
SigningKey(s) == IF s = None THEN NewSigningKey
                 ELSE IF s.labelled /\ s.key # 0 /\ s.owner = Owner THEN s
                 ELSE Repaired(s)

\* The secret is read from the API server; one that another extension owns is
\* an error.
ReadSigningKey ==
    LET s == signing[ns_] IN
    /\ work.pc = "signing?"
    /\ IF s # None /\ s.owner.ext # this THEN Finish(TRUE)
       ELSE work' = [work EXCEPT !.pc = "signing", !.read = s] /\ UNCHANGED queue
    /\ UNCHANGED <<exts, gateways, filters, owned, secrets, rest>>

\* validateSessionStore, and the checks of reconcileCACertBundle.
validInputs == bundle[ns_] # 0

\* reconcileCACertBundle, SetCACertBundle.
ReconcileCACertBundle == conf' = [conf EXCEPT ![ns_] = bundle[ns_]]

\* Create and Update are refused when the secret is not the one that was read;
\* that it exists already is no error.  Invalid secrets of the user are reported.
ReconcileSecrets ==
    LET s == signing[ns_]
        new == SigningKey(work.read)
    IN  /\ work.pc = "signing"
        /\ IF new # work.read /\ s = work.read
           THEN /\ signing' = [signing EXCEPT ![ns_] = new]
                /\ keys' = IF new.key = keys + 1 THEN new.key ELSE keys
           ELSE UNCHANGED <<signing, keys>>
        /\ IF work.read # None /\ new # work.read /\ s # work.read THEN Finish(TRUE) /\ UNCHANGED conf
           ELSE IF validInputs THEN ReconcileCACertBundle /\ Goto(KindAfter(0))
           ELSE Report("secret") /\ UNCHANGED conf
        /\ UNCHANGED <<exts, gateways, filters, owned, public, private, pairs, bundle, rest>>

(* reconcileBrokerRouter: one step per kind.                               *)

\* mergeCommand, mergeEnvVars, mergeVolumes, mergeVolumeMounts: what the
\* controller manages is set, what users added is kept, and so is the owner.
Merged(s, want) == [s EXCEPT !.managed = want]

\* serviceNeedsUpdate, deploymentNeedsUpdate, ...: only what is managed counts.
NeedsUpdate(s, want) == s.managed # want

\* HTTPRouteDisabled: the routes are left as they are, and to the user.
Managed(k, s) == k \in {"httproute", "tokens"} => s.routes

\* Get; Create, or NeedsUpdate and Update, or Delete.
Ensure(n) ==
    LET k == Kinds[n]
        s == ownSeen[ns_][k]
        want == Desired(k, work.snap)
        wanted == k # "tokens" \/ work.snap.tokens
        written == IF k = "deployment" THEN Report("notReady") ELSE Goto(KindAfter(n))
    IN  /\ work.pc = k
        /\ \/ /\ ~Managed(k, work.snap)
              /\ Goto(KindAfter(n)) /\ UNCHANGED owned
           \/ /\ Managed(k, work.snap)
              /\ IF wanted THEN s # None /\ ~NeedsUpdate(s, want) ELSE s = None \/ own[ns_][k] = None
              /\ Goto(KindAfter(n)) /\ UNCHANGED owned
           \/ /\ Managed(k, work.snap) /\ ~wanted /\ s # None /\ own[ns_][k] # None
              /\ OwnWritten(ns_, k, None) /\ written
           \/ /\ Managed(k, work.snap) /\ wanted /\ s = None
              /\ IF own[ns_][k] = None THEN OwnWritten(ns_, k, Built(k, this, work.snap)) /\ written
                 ELSE Finish(TRUE) /\ UNCHANGED owned
           \/ /\ Managed(k, work.snap) /\ wanted /\ s # None /\ NeedsUpdate(s, want)
              /\ IF ownDue[ns_][k] = {} THEN OwnWritten(ns_, k, Merged(s, want)) /\ written
                 ELSE Finish(TRUE) /\ UNCHANGED owned
        /\ UNCHANGED <<exts, gateways, filters, secrets, rest>>

\* Mutant: the labels are compared, the specification is not.
FilterLabelled(s, want) == s # None /\ s.by = want.by

\* envoyFilterNeedsUpdate: specification and labels.
FilterUpToDate(s, want) == s = want

\* If the deployment's replicas are not ready, look again later; otherwise
\* reconcileEnvoyFilter.
ReconcileEnvoyFilter ==
    LET s == filterSeen[ns_]
        want == buildEnvoyFilter(this, work.snap)
    IN  /\ work.pc = "replicas"
        /\ IF "deployment" \in scenario.kinds /\ ~up[ns_]
           THEN Report("notReady") /\ UNCHANGED filters
           ELSE IF FilterUpToDate(s, want) THEN Goto("list") /\ UNCHANGED filters
           ELSE IF (s = None /\ filter[ns_] = None) \/ (s # None /\ filterDue[ns_] = {})
           THEN FilterWritten(ns_, want) /\ Goto("list")
           ELSE Finish(TRUE) /\ UNCHANGED filters
        /\ UNCHANGED <<exts, gateways, owned, secrets, rest>>

\* updateGatewayListenerStatus; any error means to try again later.
UpdateGatewayListenerStatus ==
    LET l == work.snap.listener IN
    /\ work.pc = "list"
    /\ IF gatewaySeen.inUse[l] = this
       THEN Report("ready") /\ UNCHANGED gateways
       ELSE IF gatewayFresh
       THEN GatewayWritten([gateway EXCEPT !.inUse[l] = this]) /\ Report("ready")
       ELSE Finish(TRUE) /\ UNCHANGED gateways
    /\ UNCHANGED <<exts, filters, owned, secrets, rest>>

\* Mutant: a deployment that is not ready is left to the watches.
LookAgainNever(why) == FALSE

\* Requeue after a while: no watch tells when the replicas are ready.
LookAgain(why) == why = "notReady"

\* updateStatus: written only if it changes.
UpdateStatus ==
    /\ work.pc = "status"
    /\ IF work.snap.why = work.why THEN Finish(LookAgain(work.why)) /\ UNCHANGED exts
       ELSE IF ext[this] = work.snap
       THEN ExtWritten(this, [work.snap EXCEPT !.why = work.why]) /\ Finish(LookAgain(work.why))
       ELSE Finish(TRUE) /\ UNCHANGED exts
    /\ UNCHANGED <<gateways, filters, owned, secrets, rest>>

\* A request to the API server fails: the error is returned, except that of the
\* listener status on deletion.
RequestFails ==
    /\ work.pc # "idle" /\ "failure" \in scenario.changes /\ failures < MaxFailures
    /\ failures' = failures + 1
    /\ IF work.pc = "unlist" THEN Goto("unfilter") ELSE Finish(TRUE)
    /\ UNCHANGED <<exts, gateways, filters, owned, secrets, scenario, events>>

Reconcile == \/ Unlist \/ DeleteEnvoyFilter \/ WriteEmptyConfig \/ Release
             \/ CheckNamespaceConflict \/ ValidateGatewayTarget
             \/ ReadPublic \/ ReadPrivate \/ DeleteOrphan \/ CreatePublic \/ CreatePrivate
             \/ ReadSigningKey \/ ReconcileSecrets \/ (\E n \in 1..Len(Kinds) : Ensure(n))
             \/ ReconcileEnvoyFilter \/ UpdateGatewayListenerStatus \/ UpdateStatus

-----------------------------------------------------------------------------
(* What informers show, and whom they enqueue.                             *)

\* For: every change of an extension, its status included.
DeliverExts ==
    /\ ~extFresh
    /\ extSeen' = ext /\ extFresh' = TRUE
    /\ queue' = queue \cup {e \in Exts : ext[e] # extSeen[e]}
    /\ UNCHANGED <<ext, gateways, filters, owned, secrets, work, rest>>

\* enqueueMCPGatewayExtForGateway: all that target it, status changes included.
DeliverGateway ==
    /\ ~gatewayFresh
    /\ gatewaySeen' = gateway /\ gatewayFresh' = TRUE
    /\ queue' = queue \cup {e \in Exts : extSeen[e] # None}
    /\ UNCHANGED <<exts, gateway, grant, filters, owned, secrets, work, rest>>

\* enqueueMCPGatewayExtForEnvoyFilter: the extension that the labels name.
DeliverFilter(ns) ==
    /\ filterDue[ns] # {}
    /\ filterSeen' = [filterSeen EXCEPT ![ns] = filter[ns]]
    /\ filterDue' = [filterDue EXCEPT ![ns] = {}]
    /\ queue' = queue \cup filterDue[ns]
    /\ UNCHANGED <<exts, gateways, filter, owned, secrets, work, rest>>

\* Owns: the extension with the owner's name.
DeliverOwn(ns, k) ==
    /\ ownDue[ns][k] # {}
    /\ ownSeen' = [ownSeen EXCEPT ![ns][k] = own[ns][k]]
    /\ ownDue' = [ownDue EXCEPT ![ns][k] = {}]
    /\ queue' = queue \cup ownDue[ns][k]
    /\ UNCHANGED <<exts, gateways, filters, own, up, secrets, work, rest>>

Deliver == \/ DeliverExts \/ DeliverGateway
           \/ \E ns \in Namespaces : DeliverFilter(ns) \/ \E k \in KindSet : DeliverOwn(ns, k)

\* The replicas of a deployment become ready.
DeploymentUp(ns) ==
    /\ own[ns]["deployment"] # None /\ ~up[ns]
    /\ up' = [up EXCEPT ![ns] = TRUE]
    /\ UNCHANGED <<exts, gateways, filters, own, ownSeen, ownDue, secrets, queue, work, rest>>

Orphaned(o) == o # None /\ ~(ext[o.owner.ext] # None /\ ext[o.owner.ext].born = o.owner.born)

\* The API server's garbage collector removes what a deleted extension owned.
CollectOwn(ns, k) ==
    /\ Orphaned(own[ns][k])
    /\ OwnWritten(ns, k, None)
    /\ UNCHANGED <<exts, gateways, filters, secrets, queue, work, rest>>

\* enqueueMCPGatewayExtForSecret: not for the private half of a key pair.
ForSecret(ns) == {e \in Exts : extSeen[e] # None /\ NsOf[e] = ns}

CollectSecret(ns) ==
    /\ \/ Orphaned(signing[ns]) /\ signing' = [signing EXCEPT ![ns] = None] /\ UNCHANGED <<public, private>>
       \/ Orphaned(public[ns]) /\ public' = [public EXCEPT ![ns] = None] /\ UNCHANGED <<signing, private>>
       \/ Orphaned(private[ns]) /\ private' = [private EXCEPT ![ns] = None] /\ UNCHANGED <<signing, public>>
    /\ queue' = IF private' = private THEN queue \cup ForSecret(ns) ELSE queue
    /\ UNCHANGED <<exts, gateways, filters, owned, pairs, keys, bundle, conf, work, rest>>

Collect == \E ns \in Namespaces : CollectSecret(ns) \/ \E k \in KindSet : CollectOwn(ns, k)

(* Users.                                                                  *)

Event(what) == what \in scenario.changes /\ events < MaxEvents /\ events' = events + 1
               /\ UNCHANGED <<scenario, failures>>

\* A later creation of a name that is gone for every informer.
CreateExtension(e) ==
    /\ Event(e) /\ extFresh /\ ext[e] = None
    /\ ExtWritten(e, NewExt(e, 2 + events))
    /\ UNCHANGED <<gateways, filters, owned, secrets, queue, work>>

\* A new listener; URL elicitation is disabled; so is the management of routes,
\* or it is enabled.
EditExtension(e) ==
    /\ ext[e] # None
    /\ \/ \E l \in Listeners \ {ext[e].listener} :
             Event("target") /\ ExtWritten(e, [ext[e] EXCEPT !.listener = l])
       \/ Event("tokens") /\ ext[e].tokens /\ ExtWritten(e, [ext[e] EXCEPT !.tokens = FALSE])
       \/ Event("routes") /\ ExtWritten(e, [ext[e] EXCEPT !.routes = ~@])
    /\ UNCHANGED <<gateways, filters, owned, secrets, queue, work>>

DeleteExtension(e) ==
    /\ Event(e) /\ ext[e] # None /\ ~ext[e].deleting
    /\ ExtWritten(e, IF ext[e].finalizer THEN [ext[e] EXCEPT !.deleting = TRUE] ELSE None)
    /\ UNCHANGED <<gateways, filters, owned, secrets, queue, work>>

ChangeGateway ==
    /\ Event("gateway") /\ GatewayWritten([gateway EXCEPT !.ok = ~@])
    /\ UNCHANGED <<exts, filters, owned, secrets, queue, work>>

\* A ReferenceGrant that comes or goes; enqueueMCPGatewayExtForReferenceGrant.
ChangeGrant ==
    /\ Event("grant")
    /\ grant' = ~grant /\ queue' = queue \cup {e \in Exts : extSeen[e] # None}
    /\ UNCHANGED <<exts, gateway, gatewaySeen, gatewayFresh, filters, owned, secrets, work>>

ChangeFilter(ns) ==
    /\ Event("filter") /\ filter[ns] # None
    /\ \E v \in {None, [filter[ns] EXCEPT !.managed = FALSE]} : FilterWritten(ns, v)
    /\ UNCHANGED <<exts, gateways, owned, secrets, queue, work>>

\* A resource is deleted, or altered; parts are added to the deployment.
ChangeOwn(ns, k) ==
    LET o == own[ns][k] IN
    /\ Event("own") /\ o # None
    /\ \E v \in {None, [o EXCEPT !.managed = None]}
              \cup IF k = "deployment" THEN {[o EXCEPT !.user = TRUE]} ELSE {} :
          OwnWritten(ns, k, v)
    /\ UNCHANGED <<exts, gateways, filters, secrets, queue, work>>

\* The secrets that an extension refers to, and those it made.
ChangeSecret(ns) ==
    /\ Event("secret") /\ ForSecret(ns) # {}
    /\ \/ \E b \in {0, 1, 2} \ {bundle[ns]} : bundle' = [bundle EXCEPT ![ns] = b]
          /\ UNCHANGED <<public, private, signing>>
       \/ public[ns] # None /\ public' = [public EXCEPT ![ns] = None]
          /\ UNCHANGED <<bundle, private, signing>>
       \/ private[ns] # None /\ private' = [private EXCEPT ![ns] = None]
          /\ UNCHANGED <<bundle, public, signing>>
       \/ /\ signing[ns] # None
          /\ \E v \in {None, [signing[ns] EXCEPT !.labelled = FALSE], [signing[ns] EXCEPT !.key = 0],
                        [signing[ns] EXCEPT !.key = keys + 1]} :
                 signing' = [signing EXCEPT ![ns] = v]
          /\ UNCHANGED <<bundle, public, private>>
    /\ keys' = IF signing'[ns] # None /\ signing'[ns].key = keys + 1 THEN keys + 1 ELSE keys
    /\ queue' = IF private' = private THEN queue \cup ForSecret(ns) ELSE queue
    /\ UNCHANGED <<exts, gateways, filters, owned, pairs, conf, work>>

Users == \/ \E e \in Exts : CreateExtension(e) \/ EditExtension(e) \/ DeleteExtension(e)
         \/ ChangeGateway \/ ChangeGrant
         \/ \E ns \in Namespaces : \/ ChangeFilter(ns) \/ ChangeSecret(ns)
                                    \/ \E k \in KindSet : ChangeOwn(ns, k)

\* The controller's process restarts: the caches are filled anew, and every
\* extension is enqueued.
Restart ==
    /\ "failure" \in scenario.changes /\ failures < MaxFailures /\ failures' = failures + 1
    /\ extSeen' = ext /\ extFresh' = TRUE
    /\ gatewaySeen' = gateway /\ gatewayFresh' = TRUE
    /\ filterSeen' = filter /\ filterDue' = [ns \in Namespaces |-> {}]
    /\ ownSeen' = own /\ ownDue' = [ns \in Namespaces |-> [k \in KindSet |-> {}]]
    /\ queue' = {e \in Exts : ext[e] # None} /\ work' = Idle
    /\ UNCHANGED <<ext, gateway, grant, filter, own, up, secrets, scenario, events>>

Worker == (\E e \in Exts : Begin(e)) \/ Reconcile

Next == \/ Worker \/ RequestFails
        \/ Deliver \/ (\E ns \in Namespaces : DeploymentUp(ns)) \/ Collect
        \/ Users \/ Restart

Spec == Init /\ [][Next]_vars

\* The worker takes items as long as there are any, and ends every reconcile;
\* watches deliver; replicas that are left alone get ready.
FairSpec ==
    /\ Spec
    /\ WF_vars(Worker) /\ WF_vars(Deliver) /\ WF_vars(\E ns \in Namespaces : DeploymentUp(ns))

-----------------------------------------------------------------------------
(* Properties.                                                             *)

OneOf(v, S) == v = None \/ v \in S

\* Every variable has its type; a reconcile holds a copy that was finalized.
TypeOK ==
    LET whys == {"none", "ready", "notReady", "conflict", "invalid", "noGrant", "secret"}
        owners == [ext : Exts, born : Nat]
        extensions == [born : Nat, listener : Listeners, tokens : BOOLEAN, routes : BOOLEAN,
                       deleting : BOOLEAN, finalizer : BOOLEAN, why : whys]
        parts == {<<>>, None} \cup (Listeners \X (BOOLEAN \cup Listeners))
        things == [managed : parts, user : BOOLEAN, owner : owners]
    IN  /\ \A e \in Exts : OneOf(ext[e], extensions) /\ OneOf(extSeen[e], extensions)
        /\ \A l \in Listeners : OneOf(gateway.inUse[l], Exts)
        /\ \A ns \in Namespaces :
              /\ OneOf(filter[ns], [by : Exts, listener : Listeners, managed : BOOLEAN])
              /\ \A k \in KindSet : OneOf(own[ns][k], things)
              /\ OneOf(public[ns], [pair : 1..pairs, owner : owners])
              /\ OneOf(private[ns], [pair : 1..pairs, owner : owners])
              /\ OneOf(signing[ns], [key : 0..keys, labelled : BOOLEAN, owner : owners])
              /\ OneOf(conf[ns], 0..2)
              /\ filterDue[ns] = {} => filterSeen[ns] = filter[ns]
              /\ \A k \in KindSet : ownDue[ns][k] = {} => ownSeen[ns][k] = own[ns][k]
        /\ extFresh => extSeen = ext
        /\ gatewayFresh => gatewaySeen = gateway
        /\ queue \subseteq Exts
        /\ work # Idle => work.item \in Exts /\ work.snap.finalizer /\ work.why \in whys

Quiet == /\ work = Idle /\ queue = {} /\ extFresh /\ gatewayFresh
         /\ \A ns \in Namespaces :
               /\ filterDue[ns] = {} /\ \A k \in KindSet : ownDue[ns][k] = {} /\ ~Orphaned(own[ns][k])
               /\ ~Orphaned(signing[ns]) /\ ~Orphaned(public[ns]) /\ ~Orphaned(private[ns])

Active(e) == ext[e] # None /\ ~ext[e].deleting
Ready(e) == Active(e) /\ ext[e].why = "ready"

\* When nothing is left to do, at most one of the extensions on a port, and one
\* of those in a namespace, is Ready: a younger one is reported as conflicting
\* (equally old ones aside).  checkListenerConflict, checkNamespaceConflict, and
\* the watches that make them run again.
OneOwner ==
    Quiet => \A d, e \in Exts :
        /\ Ready(d) /\ Ready(e)
        /\ PortOf[ext[d].listener] = PortOf[ext[e].listener] \/ NsOf[d] = NsOf[e]
        => ext[d].born = ext[e].born

\* The two halves of a generated key pair never come from two generations,
\* whatever is deleted, fails or is collected in between
\* (reconcileGeneratedTrustedHeaders).
KeysMatch ==
    \A ns \in Namespaces : public[ns] # None /\ private[ns] # None
                           => public[ns].pair = private[ns].pair

\* No step of the controller, however stale what it read, drops the parts that
\* users added to a deployment (the merge functions of reconcileBrokerRouter) or
\* replaces a signing key in use: sessions signed with it stay valid while the
\* secret's labels or owner are repaired, and a key that was put there after the
\* controller had found none is kept (reconcileSessionSigningKey).  They go only
\* with the extension that owns them.
NothingOverwritten ==
    [][events' = events =>
         \A ns \in Namespaces :
            LET old == own[ns]["deployment"]
                new == own[ns]["deployment"]'
                key == signing[ns]
                next == signing[ns]'
            IN  /\ old # None /\ old.user => IF new = None THEN Orphaned(old) ELSE new.user
                /\ key # None /\ key.key # 0 => IF next = None THEN Orphaned(key) ELSE next.key = key.key]_vars

Alone(e) == \A d \in Exts \ {e} : ext[d] = None \/ NsOf[d] # NsOf[e]

\* When nothing is left to do, a Ready extension alone in its namespace is
\* programmed: its filter, the condition of its listener, the resources that it
\* manages (its routes only if they are not disabled), the CA
\* bundle in its config and its keys are what its specification and the
\* secrets ask for, after any order of changes, failures and restarts.
ReadyMeansProgrammed ==
    Quiet => \A e \in Exts :
        LET ns == NsOf[e] IN
        Ready(e) /\ Alone(e) =>
          /\ gateway.ok /\ HasValidReferenceGrant(e)
          /\ filter[ns] = buildEnvoyFilter(e, ext[e])
          /\ gateway.inUse[ext[e].listener] = e
          /\ \A k \in scenario.kinds : Managed(k, ext[e]) =>
                                       IF k = "tokens" /\ ~ext[e].tokens THEN own[ns][k] = None
                                        ELSE own[ns][k] # None /\ own[ns][k].managed = Desired(k, ext[e])
          /\ conf[ns] = bundle[ns]
          /\ signing[ns] # None /\ signing[ns].labelled /\ signing[ns].key # 0
          /\ scenario.generate => public[ns] # None

\* For an extension without rivals: when it is deleted it goes, and when its
\* gateway, grant and secrets are in order it becomes and stays Ready (Reconcile,
\* its retries and watches).  One that lost to a rival may stay Invalid when
\* the rival is deleted: nothing that is sure to happen then enqueues it.
EventuallyProgrammed ==
    <>[](\A e \in Exts : scenario.first = {e} /\ ext[e] # None =>
            /\ ~ext[e].deleting
            /\ gateway.ok /\ grant /\ bundle[NsOf[e]] # 0 => ext[e].why = "ready")
=============================================================================
