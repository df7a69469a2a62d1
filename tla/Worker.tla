------------------------------- MODULE Worker -------------------------------
(***************************************************************************)
(* One unit of a charm built on coordinated_workers.worker.Worker, from    *)
(* the databag its coordinator writes down to the pebble services it runs. *)
(*                                                                         *)
(* Juju runs the hooks of a unit one at a time.  A hook reads the databag  *)
(* and the charm config once, when it starts, and is then a sequence of    *)
(* steps (pc), each one call or group of calls on the workload container.  *)
(* The container may die and come back between any two of them, the        *)
(* coordinator may publish again, and a call may fail: the hook then fails *)
(* as a whole, what it wrote to its own databag is dropped, what it did to *)
(* the container stays, and Juju runs it again from the start.             *)
(***************************************************************************)
EXTENDS Naturals, FiniteSets

CONSTANTS
    Bags,       \* the valid contents of the coordinator's app databag (records)
    Roles,      \* the X of the role-X config options
    Services,   \* the pebble services of the workload container
    Specs,      \* what a layer may say of a service
    LayerOf,    \* the charm's pebble_layer callback: a layer for roles and databag
    Leadership, \* whether the unit may lead, or must, or neither (a bound for TLC)
    BasePlan,   \* the plan of a freshly started workload container
    Faults,     \* the external failures that may happen
    NoData,     \* the databag holds nothing that ClusterProviderAppData can load
    NoRelation, \* the hook sees no cluster relation
    NoConfig, NoTLS, Torn, NoSpec, NoPorts, NoLabels, Down

FaultKinds == {"k8s", "denied", "secret", "push", "exec", "callback",
               "restart", "stop"}

\* A plan or a layer: for each service what is said of it, or that it is absent.
Plans   == [Services -> Specs \cup {NoSpec}]
\* The readiness check and the proxy variables that Worker adds to the layer are
\* the same in every layer, and part of what LayerOf returns.
ServicesIn(layer) == {s \in Services : layer[s] # NoSpec}

Configs   == {b.worker_config : b \in Bags}
Bundles   == {b.tls : b \in Bags}
Endpoints == UNION {b.loki_endpoints : b \in Bags}
PortSets  == {b.worker_ports : b \in Bags} \cup {NoPorts}
LabelSets == {b.worker_labels : b \in Bags} \cup {NoLabels}

\* What the model needs of its constants.  A config that counts is not empty, NoTLS is a
\* possible content of the TLS fields of the databag, and Torn, a mix of two, is none.
ASSUME WorkerAssumption ==
    /\ NoSpec \notin Specs
    /\ NoData \notin Bags
    /\ NoRelation \notin Bags \cup {NoData}
    /\ Torn \notin Bundles
    /\ NoConfig \notin Configs
    /\ LayerOf \in [(SUBSET Roles) \X Bags -> Plans]
    /\ BasePlan \in Plans
    /\ Faults \subseteq FaultKinds
    /\ Leadership \subseteq BOOLEAN

VARIABLES
    \* what surrounds the unit
    link,       \* the cluster relation: "none", "up" or "dying"
    remote,     \* the coordinator's app databag
    roles,      \* the roles that are switched on in the charm config
    leader,     \* whether the unit is the leader
    up,         \* whether pebble answers (container.can_connect)
    pending,    \* events Juju has yet to dispatch
    \* the hook that runs, or the last one that did
    pc,         \* its next step
    hook,       \* its event and what it read when it started
    changed,    \* what _update_config has gathered so far
    draft,      \* the unit's own writes, which Juju keeps if the hook succeeds
    \* the unit in the Juju model, and the labels of the app's pods
    published, labels,
    \* the workload container
    disk,       \* the config file and the TLS files
    trust,      \* the bundle update-ca-certificates last saw
    plan,       \* the combined pebble plan
    service,    \* for each service what it was started with, or Down
    logs        \* the Loki endpoints pebble forwards logs to

environment == <<link, remote, roles, leader, up, pending>>
progress    == <<pc, hook, changed, draft>>
unit        == <<published, labels>>
container   == <<disk, trust, plan, service, logs>>
vars == <<link, remote, roles, leader, up, pending, pc, hook, changed, draft,
          published, labels, disk, trust, plan, service, logs>>

QueuedEvents == {"created", "changed", "config_changed", "leader_elected",
                 "pebble_ready"}
\* Mutants: a filter too wide.
Filter_changed == {"pebble_check_failed", "stop", "changed"}
Filter_pebble_ready == {"pebble_check_failed", "stop", "pebble_ready"}
Filter_leader_elected == {"pebble_check_failed", "stop", "leader_elected"}
NON_RECONCILABLE_EVENTS == {"pebble_check_failed", "stop"}
Events == QueuedEvents \cup {"broken", "update_status"} \cup NON_RECONCILABLE_EVENTS

\* The steps that talk to pebble and let its ConnectionError through.
PebbleSteps == {"tls", "trust", "config", "layer", "restart", "wipe", "stop"}
Steps == PebbleSteps \cup {"idle", "failed", "reconcile", "teardown", "emit"}

EmptyDisk   == [config |-> NoConfig, tls |-> NoTLS]
Unpublished == [address |-> FALSE, roles |-> {}, ports |-> NoPorts]

\* What a service finds when it is started now.
Current(s) == [config |-> disk.config, tls |-> disk.tls, spec |-> plan[s]]

-----------------------------------------------------------------------------
Init ==
    /\ link = "none"
    /\ remote = NoData
    /\ roles \in SUBSET Roles
    /\ leader \in Leadership
    /\ up = FALSE
    /\ pending = {}
    /\ pc = "idle"
    /\ hook = [event |-> "none", view |-> NoRelation, roles |-> {}]
    /\ changed = FALSE
    /\ draft = Unpublished
    /\ published = Unpublished
    /\ labels = NoLabels
    /\ disk = EmptyDisk
    /\ trust = NoTLS
    /\ plan = BasePlan
    /\ service = [s \in Services |-> Down]
    /\ logs = {}

-----------------------------------------------------------------------------
(* The surroundings: operator, coordinator, Kubernetes, pebble. *)

Relate ==
    /\ link = "none"
    /\ link' = "up"
    /\ pending' = pending \cup {"created"}
    /\ UNCHANGED <<remote, roles, leader, up, progress, unit, container>>

Unrelate ==
    /\ link = "up"
    /\ link' = "dying"
    /\ UNCHANGED <<remote, roles, leader, up, pending, progress, unit, container>>

CoordinatorWrites(data) ==
    /\ link = "up"
    /\ data # remote
    /\ remote' = data
    /\ pending' = pending \cup {"changed"}
    /\ UNCHANGED <<link, roles, leader, up, progress, unit, container>>

ConfigureRoles(R) ==
    /\ R # roles
    /\ roles' = R
    /\ pending' = pending \cup {"config_changed"}
    /\ UNCHANGED <<link, remote, leader, up, progress, unit, container>>

ChangeLeadership ==
    /\ leader' \in Leadership \ {leader}
    /\ pending' = IF leader' THEN pending \cup {"leader_elected"} ELSE pending
    /\ UNCHANGED <<link, remote, roles, up, progress, unit, container>>

\* Its files, its dynamic layers, its log targets and its processes go with it.
ContainerDies ==
    /\ up
    /\ up' = FALSE
    /\ disk' = EmptyDisk
    /\ trust' = NoTLS
    /\ plan' = BasePlan
    /\ service' = [s \in Services |-> Down]
    /\ logs' = {}
    /\ UNCHANGED <<link, remote, roles, leader, pending, progress, unit>>

\* Juju starts pebble with its services on hold.
ContainerStarts ==
    /\ ~up
    /\ up' = TRUE
    /\ pending' = pending \cup {"pebble_ready"}
    /\ UNCHANGED <<link, remote, roles, leader, progress, unit, container>>

\* A service exits, and pebble starts it again from the files that are there.
ServiceExits(s) ==
    /\ service[s] # Down
    /\ service' = [service EXCEPT ![s] =
                      IF disk.config = NoConfig THEN Down ELSE Current(s)]
    /\ UNCHANGED <<environment, progress, unit, disk, trust, plan, logs>>

-----------------------------------------------------------------------------
(* Juju's dispatch. *)

\* Mutant: a breaking relation is still read.
View_breaking(event) == IF link = "none" THEN NoRelation ELSE remote

\* In the hook of its breaking ops leaves the relation out of the model.
View(event) == IF link = "none" \/ event = "broken" THEN NoRelation ELSE remote

\* Worker and ClusterRequirer are built anew and observe the event.
Enter(event) ==
    /\ hook' = [event |-> event, view |-> View(event), roles |-> roles]
    /\ changed' = FALSE
    /\ draft' = published
    /\ pc' = IF event \in NON_RECONCILABLE_EVENTS THEN "emit" ELSE "reconcile"

\* The hook's process ends: all it remembers is gone, and all it wrote to its
\* databag if it failed.
Forget(event, kept) ==
    /\ hook' = [event |-> event, view |-> NoRelation, roles |-> {}]
    /\ changed' = FALSE
    /\ draft' = kept

Abandon == pc' = "failed" /\ Forget(hook.event, published)

Due(event) ==
    CASE event \in QueuedEvents -> /\ event \in pending
                                   /\ event = "changed" => "created" \notin pending
      [] event = "broken"       -> link = "dying" /\ "created" \notin pending
      [] OTHER                  -> TRUE

Dispatch(event) ==
    /\ pc = "idle"
    /\ Due(event)
    /\ Enter(event)
    /\ pending' = pending \ {event}
    /\ UNCHANGED <<link, remote, roles, leader, up, unit, container>>

Retry ==
    /\ pc = "failed"
    /\ Enter(hook.event)
    /\ UNCHANGED <<environment, unit, container>>

-----------------------------------------------------------------------------
(* Worker._reconcile, the first observer of an event. *)

\* Mutant: a worker without roles is ready.
IsReady_anyRole == up /\ hook.view \in Bags

IsReady == up /\ hook.roles # {} /\ hook.view \in Bags

\* Mutant: labels are not cleared when the databag has none.
LabelsOf_sticky(view) == IF view \in Bags THEN view.worker_labels ELSE labels

LabelsOf(view) == IF view \in Bags THEN view.worker_labels ELSE NoLabels

\* Mutant: the meta role is published along.
PublishedRoles_all == {hook.roles \cup {"all"}}

\* _update_cluster_relation.  The write of the roles may be denied, which is logged.
PublishedRoles ==
    IF leader /\ hook.roles # {}
    THEN {hook.roles} \cup (IF "denied" \in Faults THEN {draft.roles} ELSE {})
    ELSE {draft.roles}

Publish ==
    \E R \in IF hook.view = NoRelation THEN {draft.roles} ELSE PublishedRoles :
        draft' = [address |-> draft.address \/ hook.view # NoRelation,
                  roles   |-> R,
                  ports   |-> IF IsReady /\ hook.view.worker_ports # NoPorts
                              THEN hook.view.worker_ports ELSE draft.ports]

Reconcile ==
    /\ pc = "reconcile"
    /\ labels' = IF leader THEN LabelsOf(hook.view) ELSE labels
    /\ Publish
    /\ pc' = IF IsReady THEN "tls" ELSE "teardown"
    /\ UNCHANGED <<environment, hook, changed, published, container>>

(* _update_config and its three parts, in the order of the tuple. *)

\* Mutants: only the last part counts; the layer is always taken for a new one.
Gathered_last(differs) == differs
Gathered_always(differs) == TRUE

\* any((...)): all three parts run, and one that changed something suffices.
Gathered(differs) == changed \/ differs

SyncTLSFiles ==
    /\ pc = "tls"
    /\ up
    /\ disk' = [disk EXCEPT !.tls = hook.view.tls]
    /\ changed' = Gathered(disk.tls # hook.view.tls)
    /\ pc' = IF disk.tls # hook.view.tls THEN "trust" ELSE "config"
    /\ UNCHANGED <<environment, hook, draft, unit, trust, plan, service, logs>>

\* Mutant: only the first bundle reaches the trust store.
UpdateCACertificates_once ==
    /\ pc = "trust"
    /\ up
    /\ trust' = IF trust = NoTLS THEN disk.tls ELSE trust
    /\ pc' = "config"
    /\ UNCHANGED <<environment, hook, changed, draft, unit, disk, plan, service, logs>>

UpdateCACertificates ==
    /\ pc = "trust"
    /\ up
    /\ trust' = disk.tls
    /\ pc' = "config"
    /\ UNCHANGED <<environment, hook, changed, draft, unit, disk, plan, service, logs>>

\* Mutant: the config is read again when it is written.
UpdateWorkerConfig_live ==
    /\ pc = "config"
    /\ up
    /\ disk' = [disk EXCEPT !.config = IF remote \in Bags THEN remote.worker_config
                                                        ELSE hook.view.worker_config]
    /\ changed' = Gathered(disk.config # disk'.config)
    /\ pc' = "layer"
    /\ UNCHANGED <<environment, hook, draft, unit, trust, plan, service, logs>>

UpdateWorkerConfig ==
    /\ pc = "config"
    /\ up
    /\ disk' = [disk EXCEPT !.config = hook.view.worker_config]
    /\ changed' = Gathered(disk.config # hook.view.worker_config)
    /\ pc' = "layer"
    /\ UNCHANGED <<environment, hook, draft, unit, trust, plan, service, logs>>

\* The pebble_layer property calls the charm; NoLayer when the charm raises.
Layer == LayerOf[hook.roles, hook.view]

\* container.add_layer(..., combine=True): what the layer does not name stays.
Combine(layer, old) == [s \in Services |-> IF layer[s] # NoSpec THEN layer[s] ELSE old[s]]

SetPebbleLayer ==
    /\ pc = "layer"
    /\ up
    /\ \/ /\ plan' = Combine(Layer, plan)
          /\ changed' = Gathered(Layer # plan)
       \/ /\ "callback" \in Faults
          /\ UNCHANGED <<plan, changed>>
    /\ pc' = IF changed' THEN "restart" ELSE "emit"
    /\ UNCHANGED <<environment, hook, draft, unit, disk, trust, service, logs>>

(* Worker.restart. *)

CanRestart == disk.config # NoConfig

Restart ==
    /\ pc = "restart"
    /\ up
    /\ CanRestart
    /\ ServicesIn(Layer) # {}
    /\ ServicesIn(Layer) \subseteq ServicesIn(plan)
    /\ service' = [s \in Services |-> IF s \in ServicesIn(Layer) THEN Current(s)
                                                                 ELSE service[s]]
    /\ pc' = "emit"
    /\ UNCHANGED <<environment, hook, changed, draft, unit, disk, trust, plan, logs>>

\* The early returns, and the ConnectionError that restart swallows.
SkipRestart ==
    /\ pc = "restart"
    /\ \/ up /\ ~CanRestart
       \/ up /\ "callback" \in Faults
       \/ ~up
    /\ pc' = "emit"
    /\ UNCHANGED <<environment, hook, changed, draft, unit, container>>

\* Pebble does not know a service, as the layer that names it was never added, or
\* there is none to name.  Every exception but a ConnectionError goes up.
RestartRefused ==
    /\ pc = "restart"
    /\ up
    /\ CanRestart
    /\ ServicesIn(Layer) = {} \/ ~(ServicesIn(Layer) \subseteq ServicesIn(plan))
    /\ Abandon
    /\ UNCHANGED <<environment, unit, container>>

(* The teardown branch. *)

Teardown ==
    /\ pc = "teardown"
    /\ pc' = IF up THEN "wipe" ELSE "emit"
    /\ UNCHANGED <<environment, hook, changed, draft, unit, container>>

WipeConfigs ==
    /\ pc = "wipe"
    /\ up
    /\ disk' = EmptyDisk
    /\ pc' = "stop"
    /\ UNCHANGED <<environment, hook, changed, draft, unit, trust, plan, service, logs>>

Stop ==
    /\ pc = "stop"
    /\ up
    /\ service' = [s \in Services |-> IF s \in ServicesIn(plan) THEN Down ELSE service[s]]
    /\ pc' = "emit"
    /\ UNCHANGED <<environment, hook, changed, draft, unit, disk, trust, plan, logs>>

-----------------------------------------------------------------------------
(* ClusterRequirer's handlers and the log forwarder that observes its events. *)

LokiEndpoints == IF hook.view \in Bags THEN hook.view.loki_endpoints ELSE {}

\* The publication the handler sees includes what this hook wrote.
IsPublished == draft.address /\ (leader => draft.roles # {})

\* Mutant: a broken relation is not taken for a removal.
LogTargets_noRemoval ==
    CASE hook.event = "created" -> LokiEndpoints
      [] hook.event = "changed" /\ hook.view \in Bags -> LokiEndpoints
      [] hook.event = "changed" /\ hook.view = NoData /\ IsPublished -> {}
      [] OTHER -> logs

\* config_received and created refresh the targets, removed clears them.
LogTargets ==
    CASE hook.event = "created" -> LokiEndpoints
      [] hook.event = "broken"  -> {}
      [] hook.event = "changed" /\ hook.view \in Bags -> LokiEndpoints
      [] hook.event = "changed" /\ hook.view = NoData /\ IsPublished -> {}
      [] OTHER -> logs

\* The last step: Juju commits what the hook wrote, and forgets a broken relation.
EmitClusterEvents ==
    /\ pc = "emit"
    /\ logs' = IF up THEN LogTargets ELSE logs
    /\ IF hook.event = "broken"
       THEN /\ link' = "none"
            /\ remote' = NoData
            /\ pending' = pending \ {"created", "changed"}
            /\ published' = [Unpublished EXCEPT !.ports = draft.ports]
       ELSE /\ published' = draft
            /\ UNCHANGED <<link, remote, pending>>
    /\ pc' = "idle"
    /\ Forget("none", published')
    /\ UNCHANGED <<roles, leader, up, labels, disk, trust, plan, service>>

-----------------------------------------------------------------------------
(* Failures of a step.  The hook stops there and Juju will run it again. *)

ConnectionLost ==
    /\ pc \in PebbleSteps \/ (pc = "emit" /\ hook.event \in {"created", "changed", "broken"})
    /\ ~up
    /\ Abandon
    /\ UNCHANGED <<environment, unit, container>>

\* The step fails before it has done anything: the Kubernetes API of the labels,
\* the secret of the private key, the exec of update-ca-certificates, the push.
FailsAt == [reconcile |-> "k8s", tls |-> "secret", trust |-> "exec", config |-> "push"]

StepFails ==
    /\ pc \in DOMAIN FailsAt
    /\ FailsAt[pc] \in Faults
    /\ pc = "reconcile" => leader
    /\ pc = "tls"       => hook.view.tls # NoTLS
    /\ pc = "config"    => disk.config # hook.view.worker_config
    /\ Abandon
    /\ UNCHANGED <<environment, unit, container>>

\* A push fails after some of the TLS files were written.
SyncTLSFilesFails ==
    /\ pc = "tls"
    /\ up
    /\ "push" \in Faults
    /\ disk.tls # hook.view.tls
    /\ disk' = [disk EXCEPT !.tls = Torn]
    /\ Abandon
    /\ UNCHANGED <<environment, unit, trust, plan, service, logs>>

\* ChangeError after the last attempt: the services were stopped, some run again.
RestartFails ==
    /\ pc = "restart"
    /\ up
    /\ CanRestart
    /\ "restart" \in Faults
    /\ \E started \in SUBSET (ServicesIn(Layer) \cap ServicesIn(plan)) :
          /\ started # ServicesIn(Layer)
          /\ service' = [s \in Services |->
                            CASE s \in started           -> Current(s)
                              [] s \in ServicesIn(Layer) -> Down
                              [] OTHER                   -> service[s]]
    /\ Abandon
    /\ UNCHANGED <<environment, unit, disk, trust, plan, logs>>

\* A service does not stop in time.
StopFails ==
    /\ pc = "stop"
    /\ up
    /\ "stop" \in Faults
    /\ \E stopped \in SUBSET ServicesIn(plan) :
          service' = [s \in Services |-> IF s \in stopped THEN Down ELSE service[s]]
    /\ Abandon
    /\ UNCHANGED <<environment, unit, disk, trust, plan, logs>>

-----------------------------------------------------------------------------
Surroundings ==
    \/ Relate \/ Unrelate
    \/ \E data \in Bags \cup {NoData} : CoordinatorWrites(data)
    \/ \E R \in SUBSET Roles : ConfigureRoles(R)
    \/ ChangeLeadership
    \/ ContainerDies \/ ContainerStarts
    \/ \E s \in Services : ServiceExits(s)

HookStep ==
    \/ Reconcile
    \/ SyncTLSFiles \/ UpdateCACertificates \/ UpdateWorkerConfig \/ SetPebbleLayer
    \/ Restart \/ SkipRestart \/ RestartRefused
    \/ Teardown \/ WipeConfigs \/ Stop
    \/ EmitClusterEvents
    \/ ConnectionLost

Fault == StepFails \/ SyncTLSFilesFails \/ RestartFails \/ StopFails

Next ==
    \/ Surroundings
    \/ \E event \in Events : Dispatch(event)
    \/ Retry
    \/ HookStep
    \/ Fault

Spec == Init /\ [][Next]_vars

\* A hook that started goes on, Juju retries it and gets to every queued event,
\* and Kubernetes brings a container back.
Fairness ==
    /\ WF_vars(HookStep)
    /\ WF_vars(Retry)
    /\ WF_vars(ContainerStarts)
    /\ \A event \in QueuedEvents \cup {"broken"} : SF_vars(Dispatch(event))

FairSpec == Spec /\ Fairness
-----------------------------------------------------------------------------
(* Properties. *)

Requests == [config: Configs \cup {NoConfig}, tls: Bundles \cup {NoTLS, Torn},
             spec: Specs \cup {NoSpec}]

TypeOK ==
    /\ link \in {"none", "up", "dying"}
    /\ remote \in Bags \cup {NoData}
    /\ roles \in SUBSET Roles
    /\ leader \in BOOLEAN
    /\ up \in BOOLEAN
    /\ pending \in SUBSET QueuedEvents
    /\ pc \in Steps
    /\ hook \in [event: Events \cup {"none"}, view: Bags \cup {NoData, NoRelation}, roles: SUBSET Roles]
    /\ changed \in BOOLEAN
    /\ {draft, published} \subseteq [address: BOOLEAN, roles: SUBSET Roles, ports: PortSets]
    /\ labels \in LabelSets
    /\ disk \in [config: Configs \cup {NoConfig}, tls: Bundles \cup {NoTLS, Torn}]
    /\ trust \in Bundles \cup {NoTLS, Torn}
    /\ plan \in Plans
    /\ service \in [Services -> Requests \cup {Down}]
    /\ logs \in SUBSET Endpoints

\* Every queued event was handled and no hook runs or has failed: what the unit
\* looks like now is what its operator gets.
Quiet == pc = "idle" /\ pending = {} /\ link # "dying"

\* The two halves of is_ready that do not depend on the container.
Configured == link = "up" /\ remote \in Bags /\ roles # {}

\* The docstring of stop, "tell pebble to not restart it", and _wipe_configs: a
\* worker without relation, config or roles runs nothing and keeps no config,
\* whatever failed and in whichever order the container and the events came.
NothingRunsUnconfigured ==
    Quiet /\ ~Configured => disk = EmptyDisk /\ \A s \in Services : service[s] = Down

\* _update_worker_config and _sync_tls_files: once events are handled, the files in
\* the container are those of the databag as it is now, never a mix of two versions.
FilesFollowCoordinator ==
    Quiet /\ up /\ Configured =>
        disk = [config |-> remote.worker_config, tls |-> remote.tls]

\* A service of the worker's layer that runs was started with the files that are
\* on disk and the layer that is in the plan: no restart was missed.
NoStaleService ==
    Quiet /\ up /\ Configured =>
        \A s \in ServicesIn(LayerOf[roles, remote]) : service[s] \in {Down, Current(s)}

\* The docstring of restart: letting Juju retry the hook gets the worker unstuck.
\* Once no hook is left to retry, every service of the layer runs.
ServicesRun ==
    Quiet /\ up /\ Configured =>
        \A s \in ServicesIn(LayerOf[roles, remote]) : service[s] # Down

\* _update_tls_certificates: a bundle the coordinator provides is one that
\* update-ca-certificates has seen since it was written.
BundleTrusted ==
    Quiet /\ up /\ Configured /\ remote.tls # NoTLS => trust = remote.tls

\* The comment in disable_logging: nothing is forwarded once the relation is gone.
NoLogsWithoutRelation == Quiet /\ link = "none" => logs = {}

\* update_logging: "Update the log forwarding to match the active Loki endpoints".
LogsForwarded ==
    Quiet /\ up /\ link = "up" /\ remote \in Bags => logs = remote.loki_endpoints

\* _update_cluster_relation: what the coordinator reads of the unit is what the
\* unit is, although writes of failed hooks are dropped.
UnitPublished ==
    Quiet /\ link = "up" =>
        /\ published.address
        /\ leader /\ roles # {} => published.roles = roles

\* _reconcile: ports and labels are the databag's.
UnitFollowsCoordinator ==
    /\ Quiet /\ up /\ Configured /\ remote.worker_ports # NoPorts =>
          published.ports = remote.worker_ports
    /\ Quiet /\ leader => labels = IF link = "up" /\ remote \in Bags
                                 THEN remote.worker_labels ELSE NoLabels

\* What the coordinator, the operator and Kubernetes leave alone from some time on.
Stable(b, R) == link = "up" /\ remote = b /\ roles = R /\ up

\* A config that stays published ends up as what every service runs with.
ConfigPropagates ==
    \A b \in Bags, R \in (SUBSET Roles) \ {{}} :
        <>[]Stable(b, R) =>
            <>[](\A s \in ServicesIn(LayerOf[R, b]) :
                    service[s] = [config |-> b.worker_config, tls |-> b.tls,
                                  spec |-> LayerOf[R, b][s]])

\* Once nothing changes any more, the services are left alone.
RestartsCease ==
    \A b \in Bags, R \in (SUBSET Roles) \ {{}} :
        <>[]Stable(b, R) => <>[](pc # "restart")

\* A worker whose relation is removed stops its services.
RemovalStopsServices ==
    link = "dying" ~> (\A s \in Services : service[s] = Down)
=============================================================================
