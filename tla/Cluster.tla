------------------------------- MODULE Cluster -------------------------------
(***************************************************************************)
(* A coordinator and its worker applications: what Coordinator takes for   *)
(* its surroundings are the hooks of the worker units, and what a worker   *)
(* unit reads is what the coordinator has committed.                       *)
(*                                                                         *)
(* The coordinator is Coordinator, step by step.  A worker unit is a hook  *)
(* that starts, reads the databag of its application and the role options, *)
(* and finishes or fails: what Worker shows to its surroundings, as        *)
(* WorkerUnit and its proofs establish.                                    *)
(***************************************************************************)
EXTENDS Coordinator

CONSTANTS
    Lead,           \* for each worker app the unit that leads it
    Disruptions,    \* how often the surroundings may change what is there (a bound for TLC)
    Recommended,    \* the recommended_deployment that the consistency probe is given
    DefaultRole,    \* the role-X option that is on by default
    InFlux, NoInput, NoConfig

ASSUME ClusterAssumption ==
    /\ Lead \in [Apps -> Units]
    /\ \A a \in Apps : AppOf[Lead[a]] = a
    /\ Disruptions \in Nat
    /\ {NoRelation, NoData} \cap Publications = {}
    /\ NoData # NoRelation
    /\ Recommended \in [DOMAIN Recommended -> Nat]
    /\ \A m \in DOMAIN MetaRoles : MetaRoles[m] \subseteq DOMAIN Recommended

VARIABLES
    options,    \* for each worker app the role options that are switched on
    \* for each worker unit, as in Unit
    stale, lost, phase, seen, files,
    disruptions     \* how many changes the surroundings may still make

clusterVars == <<vars, options, stale, lost, phase, seen, files, disruptions>>

EmptyDisk == [config |-> NoConfig, tls |-> NoTLS]

Joined(u) == cluster[AppOf[u]] # NoRelation /\ u \in cluster[AppOf[u]].joined

\* What a hook of a worker unit reads when it starts now.
Input(u) == [view  |-> IF Joined(u) THEN databag[AppOf[u]] ELSE NoRelation,
             roles |-> options[AppOf[u]]]

Inputs == [view: Publications \cup {NoData, NoRelation}, roles: SUBSET Roles]

WantedFiles ==
    [i \in Inputs |-> IF i.view \in {NoData, NoRelation} \/ i.roles = {} THEN EmptyDisk
                      ELSE [config |-> i.view.worker_config, tls |-> i.view.tls]]

-----------------------------------------------------------------------------
ClusterInit ==
    /\ Init
    /\ options \in [Apps -> Advertised]
    /\ stale = [u \in Units |-> FALSE]
    /\ lost = [u \in Units |-> TRUE]
    /\ phase = [u \in Units |-> "rest"]
    /\ seen = [u \in Units |-> NoInput]
    /\ files = [u \in Units |-> EmptyDisk]
    /\ disruptions = Disruptions

\* Juju queues an event for every unit whose databag or options change.
TellUnits == stale' = [u \in Units |-> stale[u] \/ Input(u)' # Input(u)]

\* A step of the coordinator or of its surroundings, seen from the worker units.
Told == UNCHANGED <<options, lost, phase, seen, files>> /\ TellUnits
Aside == Told /\ UNCHANGED disruptions

(* What surrounds the cluster. *)

Disrupt == disruptions > 0 /\ disruptions' = disruptions - 1

ConfigureRoles(a) ==
    /\ \E R \in (Advertised \cup {{}}) \ {options[a]} : options' = [options EXCEPT ![a] = R]
    /\ Disrupt
    /\ UNCHANGED <<vars, lost, phase, seen, files>>
    /\ TellUnits

\* Juju lets the hooks of a unit end before it takes the unit out of a relation.
AtRest(a) == \A u \in Units : AppOf[u] = a => phase[u] = "rest"

AppIsRelated(a) == Relate(a) /\ Aside
AppIsRemoved(a) == AtRest(a) /\ RemoveRelation(a) /\ Told /\ Disrupt
UnitComes(u) == UnitJoins(u) /\ Aside

\* The leader of an application is the last unit to go.
UnitGoes(u) ==
    /\ AtRest(AppOf[u])
    /\ UnitDeparts(u)
    /\ u = Lead[AppOf[u]] => cluster[AppOf[u]].joined = {u}
    /\ Told
    /\ Disrupt

ContainerLost(u) ==
    /\ ~lost[u]
    /\ lost' = [lost EXCEPT ![u] = TRUE]
    /\ files' = IF phase[u] = "rest" THEN [files EXCEPT ![u] = EmptyDisk] ELSE files
    /\ Disrupt
    /\ UNCHANGED <<vars, options, stale, phase, seen>>

CoordinatorDisturbed ==
    /\ \/ S3Changes \/ AuthorityChanges \/ MeshChanges
       \/ \E c \in Peers : ElectLeader(c) \/ NginxRestarts(c) \/ KubernetesFails(c)
    /\ Told
    /\ Disrupt

Surroundings ==
    \/ \E a \in Apps : ConfigureRoles(a) \/ AppIsRelated(a) \/ AppIsRemoved(a)
    \/ \E u \in Units : UnitComes(u) \/ UnitGoes(u) \/ ContainerLost(u)
    \/ CoordinatorDisturbed

(* The coordinator: whatever it commits, the units of the applications are told. *)

Handle(c, e) == Dispatch(c, e) /\ Aside
Proceed(c) == HookStep(c) /\ Aside
Recover(c) == Retry(c) /\ Aside
Answer(c) == Issue(c) /\ Aside

Resume(c) == (Retry(c) \/ Issue(c)) /\ Aside

CoordinatorStep(c) == (\E e \in Events : Handle(c, e)) \/ Proceed(c) \/ Resume(c)

(* A worker unit. *)

\* The container may still be away in the hook of another event than its own.
Read(u) ==
    /\ stale' = [stale EXCEPT ![u] = FALSE]
    /\ lost' \in {[lost EXCEPT ![u] = FALSE]} \cup (IF stale[u] THEN {lost} ELSE {})
    /\ seen' = [seen EXCEPT ![u] = Input(u)]
    /\ phase' = [phase EXCEPT ![u] = "hook"]
    /\ files' = [files EXCEPT ![u] = InFlux]
    /\ UNCHANGED <<vars, options, disruptions>>

UnitStarts(u) == phase[u] = "rest" /\ (stale[u] \/ lost[u]) /\ Read(u)
UnitRetries(u) == phase[u] = "failed" /\ Read(u)
StartsWithContainer(u) == UnitStarts(u) /\ ~lost'[u]

UnitFails(u) ==
    /\ phase[u] = "hook"
    /\ phase' = [phase EXCEPT ![u] = "failed"]
    /\ seen' = [seen EXCEPT ![u] = NoInput]
    /\ Disrupt
    /\ UNCHANGED <<vars, options, stale, lost, files>>

\* Mutant: the roles are published once.
PublishedRoles_once(u) ==
    IF u = Lead[AppOf[u]] /\ cluster[AppOf[u]].roles = {} THEN seen[u].roles
                                                          ELSE cluster[AppOf[u]].roles

\* The leader publishes the roles that its hook has read, if there are any.
PublishedRoles(u) ==
    IF u = Lead[AppOf[u]] /\ seen[u].roles # {} THEN seen[u].roles
                                                ELSE cluster[AppOf[u]].roles

\* Mutant: only the leader publishes an address.
Publishes_leader(u) ==
    /\ seen[u].view # NoRelation
    /\ u = Lead[AppOf[u]]
    /\ ~(u \in cluster[AppOf[u]].published /\ PublishedRoles(u) = cluster[AppOf[u]].roles)

\* A hook that sees the relation publishes the address, and the roles.
Publishes(u) ==
    /\ seen[u].view # NoRelation
    /\ ~(u \in cluster[AppOf[u]].published /\ PublishedRoles(u) = cluster[AppOf[u]].roles)

\* Mutant: the hook reads the databag again when it writes the files.
LeftFiles_live(u) == WantedFiles[Input(u)]

\* Mutant: a unit keeps its files when its roles are switched off.
LeftFiles_anyRoles(u) ==
    IF seen[u].view \in {NoData, NoRelation} THEN EmptyDisk
    ELSE [config |-> seen[u].view.worker_config, tls |-> seen[u].view.tls]

\* What a hook leaves in the container it found.
LeftFiles(u) == WantedFiles[seen[u]]

\* The hook ends, and Juju hands what it has published to the coordinator.
UnitFinishes(u) ==
    /\ phase[u] = "hook"
    /\ phase' = [phase EXCEPT ![u] = "rest"]
    /\ seen' = [seen EXCEPT ![u] = NoInput]
    /\ \E left \in {LeftFiles(u)} \cup (IF lost[u] THEN {EmptyDisk} ELSE {}) :
          files' = [files EXCEPT ![u] = left]
    /\ IF Publishes(u) THEN UnitPublishes(u, PublishedRoles(u)) ELSE UNCHANGED vars
    /\ UNCHANGED <<options, stale, lost, disruptions>>

UnitStep(u) == UnitStarts(u) \/ UnitRetries(u) \/ UnitFails(u) \/ UnitFinishes(u)

-----------------------------------------------------------------------------
ClusterNext ==
    \/ Surroundings
    \/ \E c \in Peers : CoordinatorStep(c)
    \/ \E u \in Units : UnitStep(u)

ClusterSpec == ClusterInit /\ [][ClusterNext]_clusterVars

\* Hooks of both sides go on, failed ones are retried and queued events dispatched, the
\* authority answers, and a container that is away comes back.
ClusterFairness ==
    /\ \A c \in Peers :
          /\ WF_clusterVars(Proceed(c))
          /\ WF_clusterVars(Recover(c))
          /\ WF_clusterVars(Answer(c))
          /\ \A e \in QueuedEvents : SF_clusterVars(Handle(c, e))
    /\ \A u \in Units :
          /\ WF_clusterVars(UnitRetries(u))
          /\ SF_clusterVars(StartsWithContainer(u))
          /\ WF_clusterVars(UnitFinishes(u))

FairClusterSpec == ClusterSpec /\ ClusterFairness
-----------------------------------------------------------------------------
(* Properties. *)

Disks == [config: [addresses: ByRole, s3: S3Infos] \cup {NoConfig},
          tls: Certificates \cup {NoTLS}]

ClusterTypeOK ==
    /\ TypeOK
    /\ options \in [Apps -> SUBSET Roles]
    /\ {stale, lost} \subseteq [Units -> BOOLEAN]
    /\ phase \in [Units -> {"rest", "hook", "failed"}]
    /\ seen \in [Units -> Inputs \cup {NoInput}]
    /\ files \in [Units -> Disks \cup {InFlux}]
    /\ disruptions \in 0..Disruptions

\* With no event queued at unit u, its hook has read what is there, and once the hook has
\* ended the files are those that the databag and the options call for.
UnitFollows(u) ==
    /\ phase[u] = "hook" => seen[u] \in Inputs /\ (~stale[u] => seen[u] = Input(u))
    /\ phase[u] = "rest" /\ ~stale[u] /\ ~lost[u] => files[u] = WantedFiles[Input(u)]

\* What a unit is behind with is in its queue, whichever of its databag and its options
\* changed, and whether that was before, in or after a hook.
ClusterSafety == ClusterTypeOK /\ \A u \in Units : UnitFollows(u)

U(u) == INSTANCE Unit WITH
            Results <- Disks, Wanted <- WantedFiles, Nothing <- EmptyDisk,
            input <- Input(u), stale <- stale[u], lost <- lost[u], phase <- phase[u],
            seen <- seen[u], files <- files[u]

\* Every unit keeps the promise of Unit, the one that Worker keeps step by step.
UnitsKeepPromise ==
    /\ \A u \in Units : U(u)!Init
    /\ [][\A u \in Units : [U(u)!Next]_(U(u)!vars)]_clusterVars

HasRoles(u) == Joined(u) /\ options[AppOf[u]] # {}

\* _update_cluster_relation, where only the leader publishes: whatever the operator switches
\* on, an application whose leader is not behind has published it, so that its options and
\* what the coordinator reads of it part only while an event or a hook is on its way.
RolesArePublished ==
    \A a \in Apps :
        phase[Lead[a]] = "rest" /\ ~stale[Lead[a]] /\ HasRoles(Lead[a])
            => cluster[a].roles = options[a]

\* What is left to do: an event, a hook, a container that is not there.
UnitIsQuiet(u) == phase[u] = "rest" /\ ~stale[u] /\ ~lost[u]
AllQuiet == (\A c \in Peers : Quiet(c)) /\ (\A u \in Units : UnitIsQuiet(u))

Present == Now(leader)

\* A unit of an application with roles runs with the config of the cluster as it is.
UpToDate(u) ==
    files[u] = [config |-> Publication(leader, Present, AppOf[u]).worker_config,
                tls    |-> Publication(leader, Present, AppOf[u]).tls]

\* From the databags of all the units to the files of each: with nothing left to do every
\* worker runs with what the coordinator computes from the cluster as it is now, whichever
\* hooks of which side overlapped on the way.
DeliveredWhenQuiet ==
    AllQuiet /\ CanHandleEvents(Present) =>
        \A u \in Units : HasRoles(u) /\ RemoteDataReady(Present, AppOf[u]) => UpToDate(u)

\* The options of the applications that have their leader make a coherent deployment.
Allocated ==
    /\ s3 # NoS3
    /\ Minimal \subseteq UNION {ExpandRoles(options[a]) : a \in {b \in Apps : Joined(Lead[b])}}

\* The docstring of publish_data, end to end: once the operator leaves a deployment alone
\* that has what it takes, all the workers of an application that has its leader get the
\* config, for good.
WorkersGetConfig ==
    <>[](Allocated =>
            \A u \in Units : HasRoles(u) /\ Joined(Lead[AppOf[u]]) => UpToDate(u))

P == INSTANCE Probe

\* juju export-bundle: the scale, and the options that differ from their default.
Bundle ==
    [a \in Apps |->
        [scale   |-> Cardinality(cluster[a].joined),
         options |-> [r \in {n \in Roles : (n \in options[a]) # (n = DefaultRole)} |->
                         r \in options[a]]]]

\* gather_roles: how many units the coordinator counts for a role.
UnitsWithRole(r) ==
    Cardinality({u \in Units : Joined(u) /\ r \in ExpandRoles(cluster[AppOf[u]].roles)})

\* The probe, "to test coordinated-workers deployments for consistency", reads the options
\* of an export where the coordinator reads what the units have published: with nothing
\* left to do, all applications related and one role for each of them, as the probe expects,
\* what it accepts has the recommended units in the eyes of the coordinator as well.
ProbeAgrees ==
    /\ AllQuiet
    /\ \A a \in Apps : Joined(Lead[a]) /\ Cardinality(options[a]) = 1
    /\ P!Accepts(Bundle)
    => \A r \in DOMAIN Recommended : UnitsWithRole(r) >= Recommended[r]

\* minimal_deployment is "the minimal set of roles that need to be allocated for the
\* deployment to be considered consistent": a coordinator with nothing left to do that
\* goes on has applications that are configured to take on each of them.
CoherentIsAllocated == AllQuiet /\ CanHandleEvents(Present) => Allocated
=============================================================================
