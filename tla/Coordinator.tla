----------------------------- MODULE Coordinator -----------------------------
(***************************************************************************)
(* The units of a charm built on coordinated_workers.coordinator.          *)
(* Coordinator: what they gather from the databags of the worker apps,     *)
(* when they refuse to work, and what they distribute.                     *)
(*                                                                         *)
(* The units (Peers) run their hooks concurrently.  A hook reads all       *)
(* databags when it starts, and what it writes to a databag is kept when   *)
(* it succeeds and while its unit may still write it.  What it does to its *)
(* nginx container, to its files and to Kubernetes happens at once.        *)
(***************************************************************************)
EXTENDS Naturals, FiniteSets

CONSTANTS
    Peers,      \* the units of the coordinator
    Apps,       \* the worker applications
    Units,      \* their units
    AppOf,      \* the application of a unit
    Roles,      \* ClusterRolesConfig.roles
    MetaRoles,  \* ClusterRolesConfig.meta_roles
    Minimal,    \* ClusterRolesConfig.minimal_deployment
    Advertised, \* the sets of roles an application may publish
    S3Infos,    \* what S3 may provide
    Authority,  \* whether there may, or must, be a certificates relation
    Mesh,       \* whether there may, or must, be a service mesh
    Faults,     \* the external failures that may happen
    NoRelation, NoS3, NoTLS, NoData, NoNginx, NoView

\* ClusterRolesConfig.__post_init__ raises unless the role specifications agree.
RolesConfigIsValid ==
    /\ DOMAIN MetaRoles \subseteq Roles
    /\ \A m \in DOMAIN MetaRoles : MetaRoles[m] \subseteq Roles
    /\ Minimal \subseteq Roles

ASSUME CoordinatorAssumption ==
    /\ RolesConfigIsValid
    /\ AppOf \in [Units -> Apps]
    /\ Advertised \subseteq SUBSET Roles
    /\ {} \notin Advertised
    /\ Authority \subseteq BOOLEAN
    /\ Mesh \subseteq BOOLEAN
    /\ Faults \subseteq {"k8s", "nginx"}
    /\ NoRelation \notin [roles: SUBSET Roles, joined: SUBSET Units, published: SUBSET Units]
    /\ NoTLS \notin [key: Peers, sans: SUBSET Units]

VARIABLES
    \* what Juju knows of the surroundings
    cluster,    \* for each worker app its databags and units, or NoRelation
    s3,         \* what S3 provides, or NoS3
    authority,  \* whether there is a certificates relation
    mesh,       \* whether there is a service mesh
    leader,     \* the peer that is the leader
    pending,    \* for each peer the events Juju has yet to dispatch
    request,    \* for each peer its certificate request, if any: the names in it
    issued,     \* whether the authority has answered that request
    \* the hook of each peer
    pc,         \* its next step
    view,       \* what it read when it started
    publishing, \* whether it has decided to write the app databags
    \* what the coordinator has done
    databag,    \* for each worker app what the coordinator tells it
    nginx,      \* for each peer what its nginx runs with
    rules,      \* for each peer the worker apps that have consolidated alert rules
    policies    \* the applications the mesh policies let in

surroundings == <<cluster, s3, authority, mesh, leader>>
certificates == <<request, issued>>
progress     == <<pc, view, publishing>>
results      == <<databag, nginx, rules, policies>>
vars == <<cluster, s3, authority, mesh, leader, pending, request, issued,
          pc, view, publishing, databag, nginx, rules, policies>>

\* Events of a relation, of whichever one, are all handled alike.
QueuedEvents == {"relation_changed", "leader_elected", "pebble_ready"}
\* Mutants: a filter too wide.
Filter_leader_elected == {"pebble_check_failed", "stop", "leader_elected"}
Filter_pebble_ready == {"pebble_check_failed", "stop", "pebble_ready"}
NON_RECONCILABLE_EVENTS == {"pebble_check_failed", "stop"}
Events == QueuedEvents \cup {"update_status"} \cup NON_RECONCILABLE_EVENTS

-----------------------------------------------------------------------------
(* ClusterProvider and ClusterRolesConfig: what is read off a view v. *)

\* What peer c finds when a hook starts now.
Now(c) == [cluster |-> cluster, s3 |-> s3, authority |-> authority, mesh |-> mesh,
           request |-> request[c], issued |-> issued[c]]

Related(v) == {a \in Apps : v.cluster[a] # NoRelation}

ExpandRoles(names) ==
    UNION {IF n \in DOMAIN MetaRoles THEN MetaRoles[n] ELSE {n} : n \in names}

\* The keys of gather_roles: an application counts even when it has no unit.
GatherRoles(v) == UNION {ExpandRoles(v.cluster[a].roles) : a \in Related(v)}

\* An invalid unit databag is skipped, and so is an app that has not published.
GatherAddressesByRole(v) ==
    [r \in Roles |->
        UNION {v.cluster[a].published :
                  a \in {x \in Related(v) : r \in ExpandRoles(v.cluster[x].roles)}}]

GatherAddresses(v) == UNION {GatherAddressesByRole(v)[r] : r \in Roles}

\* Mutant: units for applications.
GatherTopology_units(v) == UNION {v.cluster[a].published : a \in Related(v)}

\* The applications of gather_topology, which does not ask for roles.
GatherTopology(v) == {a \in Related(v) : v.cluster[a].published # {}}

\* _remote_data_ready, for a leader.
RemoteDataReady(v, a) ==
    /\ a \in Related(v)
    /\ v.cluster[a].joined # {}
    /\ v.cluster[a].joined \subseteq v.cluster[a].published
    /\ v.cluster[a].roles # {}

IsCoherent(v) == Minimal \subseteq GatherRoles(v)

CanHandleEvents(v) == Related(v) # {} /\ IsCoherent(v) /\ v.s3 # NoS3

\* The worker names of _certificate_request_attributes.
Sans(v) == GatherAddresses(v)

\* Mutant: whatever certificate was issued last will do.
TLS_anyRequest(c, v) ==
    IF v.authority /\ v.issued THEN [key |-> c, sans |-> UNION v.request] ELSE NoTLS

\* tls_config: the certificate for the request that was answered, with the names in it, if
\* it is the request that this view calls for.
TLS(c, v) ==
    IF v.authority /\ v.issued /\ v.request = {Sans(v)}
    THEN [key |-> c, sans |-> UNION v.request] ELSE NoTLS

\* publish_data, for one relation.  The ports depend on the role string as a whole,
\* the labels on the mesh, everything else on the cluster, S3 and the certificate.
Publication(c, v, a) ==
    [worker_config |-> [addresses |-> GatherAddressesByRole(v), s3 |-> v.s3],
     tls           |-> TLS(c, v),
     worker_ports  |-> v.cluster[a].roles,
     worker_labels |-> v.mesh]

NginxConfig(c, v) == [upstreams |-> GatherAddressesByRole(v), tls |-> TLS(c, v)]

\* Mutant: the policies stay when the mesh goes.
MeshPolicies_kept(v) == IF v.mesh THEN GatherTopology(v) \cup {"coordinator"} ELSE policies

MeshPolicies(v) == IF v.mesh THEN GatherTopology(v) \cup {"coordinator"} ELSE {}

-----------------------------------------------------------------------------
Init ==
    /\ cluster = [a \in Apps |-> NoRelation]
    /\ s3 \in S3Infos
    /\ authority \in Authority
    /\ mesh \in Mesh
    /\ leader \in Peers
    /\ pending = [c \in Peers |-> {}]
    /\ request = [c \in Peers |-> {}]
    /\ issued = [c \in Peers |-> FALSE]
    /\ pc = [c \in Peers |-> "idle"]
    /\ view = [c \in Peers |-> NoView]
    /\ publishing = [c \in Peers |-> FALSE]
    /\ databag = [a \in Apps |-> NoData]
    /\ nginx = [c \in Peers |-> NoNginx]
    /\ rules = [c \in Peers |-> {}]
    /\ policies = {}

-----------------------------------------------------------------------------
(* The surroundings: worker applications, S3, authority, mesh, Kubernetes, Juju. *)

NotifyAll == pending' = [c \in Peers |-> pending[c] \cup {"relation_changed"}]
Notify(c, kind) == pending' = [pending EXCEPT ![c] = @ \cup {kind}]

ClusterChanges(a, data) ==
    /\ cluster' = [cluster EXCEPT ![a] = data]
    /\ NotifyAll
    /\ UNCHANGED <<s3, authority, mesh, leader, certificates, progress, nginx, rules, policies>>

Relate(a) ==
    /\ cluster[a] = NoRelation
    /\ ClusterChanges(a, [roles |-> {}, joined |-> {}, published |-> {}])
    /\ UNCHANGED databag

\* A removed relation takes its databags along.
RemoveRelation(a) ==
    /\ cluster[a] # NoRelation
    /\ ClusterChanges(a, NoRelation)
    /\ databag' = [databag EXCEPT ![a] = NoData]

UnitJoins(u) ==
    /\ cluster[AppOf[u]] # NoRelation
    /\ u \notin cluster[AppOf[u]].joined
    /\ ClusterChanges(AppOf[u], [cluster[AppOf[u]] EXCEPT !.joined = @ \cup {u}])
    /\ UNCHANGED databag

\* A hook of a worker unit publishes its address, and R for its application if it leads;
\* R is what is there already if it does not lead or has no roles.
UnitPublishes(u, R) ==
    LET a == AppOf[u]
    IN /\ cluster[a] # NoRelation
       /\ u \in cluster[a].joined
       /\ R \in Advertised \/ R = cluster[a].roles
       /\ ~(u \in cluster[a].published /\ R = cluster[a].roles)
       /\ ClusterChanges(a, [cluster[a] EXCEPT !.published = @ \cup {u}, !.roles = R])
       /\ UNCHANGED databag

UnitDeparts(u) ==
    /\ cluster[AppOf[u]] # NoRelation
    /\ u \in cluster[AppOf[u]].joined
    /\ ClusterChanges(AppOf[u], [cluster[AppOf[u]] EXCEPT !.joined = @ \ {u},
                                                          !.published = @ \ {u}])
    /\ UNCHANGED databag

S3Changes ==
    /\ s3' \in S3Infos \ {s3}
    /\ NotifyAll
    /\ UNCHANGED <<cluster, authority, mesh, leader, certificates, progress, results>>

\* The certificates relation comes, or goes and takes requests and certificates along.
AuthorityChanges ==
    /\ authority' \in Authority \ {authority}
    /\ request' = [c \in Peers |-> {}]
    /\ issued' = [c \in Peers |-> FALSE]
    /\ NotifyAll
    /\ UNCHANGED <<cluster, s3, mesh, leader, progress, results>>

Issue(c) ==
    /\ request[c] # {}
    /\ ~issued[c]
    /\ issued' = [issued EXCEPT ![c] = TRUE]
    /\ Notify(c, "relation_changed")
    /\ UNCHANGED <<surroundings, request, progress, results>>

MeshChanges ==
    /\ mesh' \in Mesh \ {mesh}
    /\ NotifyAll
    /\ UNCHANGED <<cluster, s3, authority, leader, certificates, progress, results>>

\* The other relations of the charm (logging, tracing, dashboards, catalogue) change nothing
\* that is modelled here, and queue their events.
OtherRelationChanges ==
    /\ NotifyAll
    /\ UNCHANGED <<surroundings, certificates, progress, results>>

ElectLeader(c) ==
    /\ leader # c
    /\ leader' = c
    /\ Notify(c, "leader_elected")
    /\ UNCHANGED <<cluster, s3, authority, mesh, certificates, progress, results>>

\* The nginx container is replaced, and its config with it.
NginxRestarts(c) ==
    /\ "nginx" \in Faults
    /\ nginx[c] # NoNginx
    /\ nginx' = [nginx EXCEPT ![c] = NoNginx]
    /\ Notify(c, "pebble_ready")
    /\ UNCHANGED <<surroundings, certificates, progress, databag, rules, policies>>

-----------------------------------------------------------------------------
(* A hook of peer c. *)

Move(c, step) == pc' = [pc EXCEPT ![c] = step]

\* The process of a hook ends.
End(c, step) ==
    /\ Move(c, step)
    /\ view' = [view EXCEPT ![c] = NoView]
    /\ publishing' = [publishing EXCEPT ![c] = FALSE]

\* Coordinator.__init__ observes an event only when it can be handled.
Enter(c) ==
    IF CanHandleEvents(Now(c))
    THEN /\ Move(c, "reconcile")
         /\ view' = [view EXCEPT ![c] = Now(c)]
         /\ publishing' = [publishing EXCEPT ![c] = FALSE]
    ELSE End(c, "idle")

Dispatch(c, e) ==
    /\ pc[c] = "idle"
    /\ e \in QueuedEvents => e \in pending[c]
    /\ IF e \in NON_RECONCILABLE_EVENTS THEN UNCHANGED progress ELSE Enter(c)
    /\ pending' = [pending EXCEPT ![c] = @ \ {e}]
    /\ UNCHANGED <<surroundings, certificates, results>>

\* A hook that failed is one that got past the filter.
Retry(c) ==
    /\ pc[c] = "failed"
    /\ Enter(c)
    /\ UNCHANGED <<surroundings, pending, certificates, results>>

\* nginx, with what the view says of the certificate, and _reconcile_cluster_relations,
\* which writes the worker databags if the unit is the leader at this moment.
Reconcile(c) ==
    /\ pc[c] = "reconcile"
    /\ nginx' = [nginx EXCEPT ![c] = NginxConfig(c, view[c])]
    /\ publishing' = [publishing EXCEPT ![c] = (leader = c)]
    /\ Move(c, "policies")
    /\ UNCHANGED <<surroundings, pending, certificates, view, databag, rules, policies>>

\* Every peer reconciles the mesh policies, which they share; the rules are its own.
ReconcilePolicies(c) ==
    /\ pc[c] = "policies"
    /\ policies' = MeshPolicies(view[c])
    /\ rules' = [rules EXCEPT ![c] = GatherTopology(view[c])]
    /\ Move(c, "commit")
    /\ UNCHANGED <<surroundings, pending, certificates, view, publishing, databag, nginx>>

\* Mutant: a certificate request is never renewed.
Request_once(c, v) ==
    IF request[c] = {} /\ v.authority THEN {Sans(v)} ELSE request[c]

\* certificates.sync: the request that the view calls for replaces any other.
Request(c, v) == IF v.authority THEN {Sans(v)} ELSE {}

\* Mutant: an application is told once.
Writes_once(c, a) ==
    publishing[c] /\ RemoteDataReady(view[c], a) /\ cluster[a] # NoRelation /\ databag[a] = NoData

\* publish_data passes over the applications that have not published everything.
Writes(c, a) == publishing[c] /\ RemoteDataReady(view[c], a) /\ cluster[a] # NoRelation

\* Juju keeps what the hook wrote.  A relation that went meanwhile is not written to;
\* one that went and came again is taken for the one the hook saw.
Commit(c) ==
    /\ pc[c] = "commit"
    /\ publishing[c] => leader = c
    /\ databag' = [a \in Apps |->
                      IF Writes(c, a) THEN Publication(c, view[c], a) ELSE databag[a]]
    /\ LET new == IF authority THEN Request(c, view[c]) ELSE {}
       IN /\ request' = [request EXCEPT ![c] = new]
          /\ issued' = [issued EXCEPT ![c] = @ /\ new = request[c]]
    /\ End(c, "idle")
    /\ UNCHANGED <<surroundings, pending, nginx, rules, policies>>

\* The unit is no longer the leader when Juju keeps its writes.
CommitRefused(c) ==
    /\ pc[c] = "commit"
    /\ publishing[c]
    /\ leader # c
    /\ End(c, "failed")
    /\ UNCHANGED <<surroundings, pending, certificates, results>>

\* The Kubernetes API refuses the labels of the app, or the policies.
KubernetesFails(c) ==
    /\ "k8s" \in Faults
    /\ \/ pc[c] = "reconcile" /\ leader = c
       \/ pc[c] = "policies"
    /\ End(c, "failed")
    /\ UNCHANGED <<surroundings, pending, certificates, results>>

-----------------------------------------------------------------------------
SurroundingsChange ==
    \/ \E a \in Apps : Relate(a) \/ RemoveRelation(a)
    \/ \E u \in Units : UnitJoins(u) \/ UnitDeparts(u)
    \/ \E u \in Units, R \in SUBSET Roles : UnitPublishes(u, R)
    \/ S3Changes \/ AuthorityChanges \/ MeshChanges \/ OtherRelationChanges
    \/ \E c \in Peers : ElectLeader(c) \/ NginxRestarts(c)

HookStep(c) == Reconcile(c) \/ ReconcilePolicies(c) \/ Commit(c) \/ CommitRefused(c)

Next ==
    \/ SurroundingsChange
    \/ \E c \in Peers :
          \/ Issue(c)
          \/ \E e \in Events : Dispatch(c, e)
          \/ Retry(c)
          \/ HookStep(c)
          \/ KubernetesFails(c)

Spec == Init /\ [][Next]_vars

\* Hooks go on, failed ones are retried, Juju gets to every queued event, and the
\* authority answers.
Fairness ==
    \A c \in Peers :
        /\ WF_vars(HookStep(c))
        /\ WF_vars(Retry(c))
        /\ WF_vars(Issue(c))
        /\ \A e \in QueuedEvents : SF_vars(Dispatch(c, e))

FairSpec == Spec /\ Fairness
-----------------------------------------------------------------------------
(* Properties. *)

ClusterData == [roles: SUBSET Roles, joined: SUBSET Units, published: SUBSET Units]
Certificates == [key: Peers, sans: SUBSET Units]
ByRole == [Roles -> SUBSET Units]
Views == [cluster: [Apps -> ClusterData \cup {NoRelation}], s3: S3Infos,
          authority: BOOLEAN, mesh: BOOLEAN,
          request: SUBSET SUBSET Units, issued: BOOLEAN]
Publications == [worker_config: [addresses: ByRole, s3: S3Infos],
                 tls: Certificates \cup {NoTLS},
                 worker_ports: SUBSET Roles, worker_labels: BOOLEAN]

TypeOK ==
    /\ cluster \in [Apps -> ClusterData \cup {NoRelation}]
    /\ s3 \in S3Infos
    /\ {authority, mesh} \subseteq BOOLEAN
    /\ leader \in Peers
    /\ pending \in [Peers -> SUBSET QueuedEvents]
    /\ request \in [Peers -> SUBSET SUBSET Units]
    /\ issued \in [Peers -> BOOLEAN]
    /\ pc \in [Peers -> {"idle", "reconcile", "policies", "commit", "failed"}]
    /\ view \in [Peers -> Views \cup {NoView}]
    /\ publishing \in [Peers -> BOOLEAN]
    /\ databag \in [Apps -> Publications \cup {NoData}]
    /\ nginx \in [Peers -> [upstreams: ByRole, tls: Certificates \cup {NoTLS}] \cup {NoNginx}]
    /\ rules \in [Peers -> SUBSET Apps]
    /\ policies \in SUBSET (Apps \cup {"coordinator"})

\* Peer c has handled what it was told of.
Quiet(c) == pc[c] = "idle" /\ pending[c] = {}

\* publish_data, "Publish the config to all related worker clusters": once the leader
\* is quiet, every worker app that has published its data has the config of the cluster
\* as it is now, with the leader's own certificate, however hooks of the old leader and
\* of the new one interleaved and whichever of them failed.
PublishedIsCurrent ==
    Quiet(leader) /\ CanHandleEvents(Now(leader)) =>
        \A a \in Apps : RemoteDataReady(Now(leader), a) =>
            databag[a] = Publication(leader, Now(leader), a)

\* The comment in _reconcile, "certificates must be synced before we reconcile the
\* workloads; otherwise changes in the certs may go unnoticed": the nginx of a quiet
\* peer routes to the workers there are and serves the certificate it has.
NginxIsCurrent ==
    \A c \in Peers : Quiet(c) /\ CanHandleEvents(Now(c)) =>
        nginx[c] = NginxConfig(c, Now(c))

\* "update certificate with new SANs whenever a worker is added/removed": while the workers
\* change and their certificate has yet to, the old one, which the authority issued for other
\* names, is used neither in a databag beside a config that names the new workers nor by an
\* nginx that routes to them.
CertificateNamesWorkers ==
    /\ \A a \in Apps : databag[a] # NoData /\ databag[a].tls # NoTLS =>
          \A r \in Roles : databag[a].worker_config.addresses[r] \subseteq databag[a].tls.sans
    /\ \A c \in Peers : nginx[c] # NoNginx /\ nginx[c].tls # NoTLS =>
          \A r \in Roles : nginx[c].upstreams[r] \subseteq nginx[c].tls.sans

\* reconcile_cluster_internal_mesh_policies: all peers write the same policies from what
\* each of them saw; when they are done it is what they should see now.
PoliciesAreCurrent ==
    (\A c \in Peers : Quiet(c)) /\ CanHandleEvents(Now(leader)) =>
        /\ policies = IF mesh THEN GatherTopology(Now(leader)) \cup {"coordinator"} ELSE {}
        /\ \A c \in Peers : rules[c] = GatherTopology(Now(leader))

\* All the worker apps a coordinator can serve have a config with its certificate.
Served(v) ==
    CanHandleEvents(v) =>
        \A a \in Apps : RemoteDataReady(v, a) =>
            /\ databag[a] # NoData
            /\ databag[a].worker_config.addresses = GatherAddressesByRole(v)
            /\ databag[a].tls = IF authority THEN [key |-> leader, sans |-> Sans(v)] ELSE NoTLS

\* Requests, certificates and publications settle once the surroundings do: renewing the
\* request, which takes the old certificate out of use, does not go on for ever.
PublicationSettles ==
    <>[][UNCHANGED surroundings]_vars => <>[]Served(Now(leader))
=============================================================================
