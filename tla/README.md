# Verification of cos-coordinated-workers

`coordinated_workers` is the library that Loki, Mimir, Tempo and Pyroscope charms share:
a *coordinator* charm in front of several *worker* applications. The coordinator
gathers the roles and addresses its workers publish, and, if they make a coherent
deployment and S3 is there, writes one configuration to the app databag of each
relation. A worker unit turns what it reads there into files and services of its
workload container. All of it runs inside Juju hooks, one at a time per unit, under
the *reconciler* pattern: whatever the event, do everything again.

## The system

| part | state it keeps | operations | correct if |
|---|---|---|---|
| `Worker` (`worker.py`) | files, pebble plan, services and log targets of the container; ports; pod labels | `_reconcile` (`_update_config`, `restart`, `_wipe_configs`, `stop`), log forwarding | files and services follow the databag and nothing runs unconfigured, whatever fails or dies between two steps |
| `ClusterRequirer` (`interfaces/cluster.py`) | the worker's databags | publish address and roles, read the config, emit `config_received`, `created`, `removed` | published data is what the unit is; a removal is noticed |
| `ClusterProvider` (`interfaces/cluster.py`) | the coordinator's app databags | gather roles and addresses, expand meta roles, check readiness of a relation, publish | all ready relations get the same config; the roles counted are those that run |
| `Coordinator` (`coordinator.py`) | nginx and exporter config, certificate request, peer databag | guards of `__init__`, `_reconcile` | publishes only for a coherent cluster with S3, and all the time then; the certificate names every worker |
| `ClusterRolesConfig` (`coordinator.py`) | none | validate, `is_coherent_with`, `missing_roles` | coherent exactly when nothing is missing |
| telemetry proxy (`worker_telemetry.py`) | none | upstreams, locations and proxy URLs for nginx | every URL it advertises leads, through the nginx of any unit, to the endpoint it stands for |
| service mesh (`service_mesh.py`) | mesh policies | reconcile or delete policies | every worker application may reach every unit, and nobody after removal |
| alert rules (`coordinator.py`) | files under the charm directory | consolidate | one file per related application |
| telemetry correlation (`telemetry_correlation.py`) | none | find a datasource | one that is connected to the same Grafana and filtered as asked is found if there is one, and stays the one that is found |
| consistency probe (`probes/cluster_consistency.py`) | none | count roles of an exported bundle | what it accepts has the recommended units in the eyes of the coordinator |
| charm tracing (`worker.py`, `interfaces/cluster.py`) | the CA file in the charm container, the destination of traces | `charm_tracing_config`, `_setup_charm_tracing`, part of `_sync_tls_files` | the charm traces to the receiver of its databag, and comes to trust the CA of its databag and no other certificate |

They interact through relation databags only. A hook reads a snapshot of the databags
when it starts; what it writes becomes visible when it succeeds and is dropped when it
fails; what it did to the container, Kubernetes or the disk stays. Juju then runs the
hook again. What is hard is therefore: the container that dies and comes back between
two steps of a hook; a step that fails after others have had their effect; events that
arrive in another order than they were caused in; leadership that moves; data that is
read at the start of a hook and out of date at its end; and the question whether what
was decided to be "unchanged" was ever acted on. `PROJECT.json` lists these places
with their lines under `hazards`.

## Modules

| module | models |
|---|---|
| `Worker` | one worker unit with its container, its relation and Juju's queue of events: `Worker` and `ClusterRequirer` |
| `WorkerInv` | the inductive strengthenings of its safety properties: `FileSafety`, `RelationSafety`, `TrustInv`, `RestartSafety`, `PlanInv`; `Calm`, what a worker with nothing to do stays in |
| `Unit` | the abstract specification of a worker unit: what it promises to the rest of the cluster |
| `WorkerUnit` | the refinement mapping from `Worker` to `Unit`, and the inductive invariant it needs |
| `WorkerTracing` | `Worker` with what its hook does for the charm's own traces |
| `Coordinator` | the units of a coordinator, with what surrounds them: worker applications, S3, certificate authority, mesh, leadership. `Coordinator`, `ClusterProvider`, `ClusterRolesConfig` and the policies of `service_mesh.py` |
| `CoordinatorInv` | its inductive invariant, and `HasPublished`, what a leader with nothing to do stays in |
| `Cluster` | a coordinator and its worker units: `Coordinator` whose surroundings are units that implement `Unit` |
| `Telemetry` | `Coordinator` with the endpoints telemetry is sent to: `worker_telemetry.py`, and the scrape jobs and URLs of `coordinator.py` |
| `TelemetryInv` | its inductive invariant; `NamesDiffer` and `RolesDiffer`, what the proxy asks of the names of endpoints; `UnitsAreNamed`, `HostsAreApart` and `HostsAreNoRoles`, where that comes from |
| `TelemetryCorrelation` | `telemetry_correlation.py`, a pure function against a definition without order; `Telemetry` searches with it (`CorrelationIsStable`) |
| `Probe` | `probes/cluster_consistency.py`, a pure function of an exported bundle |
| `WorkerProofs`, `WorkerRelationProofs`, `WorkerUnitProofs`, `WorkerTracingProofs`, `CoordinatorProofs`, `TelemetryProofs`, `ClusterProofs`, `ProbeProofs` | theorems, for every value of the constants |
| `MCWorker`, `MCWorkerTracing`, `MCCoordinator`, `MCCluster`, `MCTelemetry` | constants for TLC |

How they build on one another:

    Worker - WorkerInv - WorkerUnit - WorkerTracing        Coordinator - CoordinatorInv
                             |                              |        |
                        implements Unit <- implemented by - Cluster  Telemetry - TelemetryInv
                                           each unit of     (uses Probe)

`Cluster` and `Telemetry` each implement `Coordinator`, and `WorkerTracing` implements `Worker`:
what is proved of the smaller module holds in the larger one.

### Worker

A hook is a sequence of steps, `pc` names the next one: `reconcile` (labels, publication,
`is_ready`), `tls`, `trust`, `config`, `layer`, `restart` on the branch that updates
the workload, `teardown`, `wipe`, `stop` on the other, and `emit` for the handlers of
`ClusterRequirer` and the log forwarder, which are registered after the reconciler and
run after it. A step is one call, or a group of calls, on the container; between two
steps anything around the unit may happen. `hook` holds what the hook read when it
started, `draft` what it wrote to its own databags, `published` what Juju has kept.

| variable | in the code |
|---|---|
| `link`, `remote`, `roles`, `leader`, `up` | the relation, `relation.data[relation.app]`, the `role-X` options, `unit.is_leader()`, `container.can_connect()` |
| `pending` | events Juju has yet to dispatch |
| `changed` | the `any(...)` of `_update_config` so far |
| `published`, `labels` | the unit's and the app's databag and the open ports; the labels patched on the pods |
| `disk`, `trust` | CONFIG_FILE and the TLS files; the bundle `update-ca-certificates` last saw |
| `plan`, `service` | `container.get_plan()`; what each service was started with |
| `logs` | the log targets in pebble |

Data is abstract: a databag is a record of a config, a TLS bundle, endpoints, ports and
labels, each a model value; a layer maps services to specifications and is a function
`LayerOf` of roles and databag, as the charm's callback is. The five TLS files are one
value, `Torn` if a push failed among them; two of them are written by the charm from the
same field, so equality of the bundle is equality of the files. Failures are actions
guarded by the set `Faults`, so that a run can say which it allows:

| fault | in the code |
|---|---|
| `k8s`, `secret`, `exec`, `push` | an exception from the label patch, from `get_secret`, from `update-ca-certificates`, from `container.push`: the hook fails |
| `denied` | the permission error that `_update_cluster_relation` swallows |
| `callback` | the charm's layer callback raises, and `pebble_layer` returns None |
| `restart`, `stop` | `ChangeError` after some services started, or stopped |

The death of the container is no fault: it may always happen.

### Coordinator

The coordinator's units are separate machines with a charm each, so several hooks run at
once; within a unit there is one at a time. A hook has the steps `reconcile` (labels, nginx
and its certificate, the decision to publish), `policies` (mesh policies, alert rules) and
`commit`. Which of them has an effect outside the databags decides the cut: labels, nginx,
files and Kubernetes objects change at once, and relation data when Juju keeps what
the hook wrote.

| variable | in the code |
|---|---|
| `cluster` | for each worker app the roles in its app databag, the units joined and those with a valid unit databag; `NoRelation` without relation |
| `s3`, `authority`, `mesh`, `leader` | S3 connection info, the certificates and service-mesh relations, leadership |
| `request`, `issued` | for each peer the certificate signing request in its databag (as the worker names in it) and whether it was answered |
| `pending` | events Juju has yet to dispatch to a peer |
| `pc`, `view`, `publishing` | the hook's progress, the databags it sees, and whether `is_leader()` was true in `_reconcile_cluster_relations` |
| `databag` | `relation.data[self.model.app]` of each worker relation |
| `nginx`, `rules`, `policies` | what each nginx runs with, each peer's consolidated rules, the mesh policies of the app |

* **Snapshot and commit.** Juju gives a hook a consistent copy of all relation data at
  its start: `view[c]` is `Now(c)` at the moment of dispatch, and nothing is read later
  but `is_leader()`. Writes go out when the hook succeeds. Those to an app databag are
  refused when the unit has ceased to lead, and the hook fails (`CommitRefused`); a
  relation that went in between is passed over.
* **Guards.** `Enter` is the tail of `Coordinator.__init__`: without workers, without a
  coherent set of roles or without S3, only collect-status is observed and the hook does
  nothing. `NON_RECONCILABLE_EVENTS` are filtered in the same way.
* **Certificates.** `tls_config` asks for the certificate of the request *this* hook would
  make. The request names every worker, so that it changes when a worker comes or goes,
  and `sync` at the top of the hook withdraws the old one: until the authority answers the new
  one there is no TLS. `TLS(c, v)` says so: the certificate is there only if the
  request in the databag is the one the view calls for and was answered. A certificate is
  its holder and the names in the request it answers, which need not be the names that the
  hook's view calls for: that no certificate with other names is used, in a databag or by an
  nginx, is `CertificateNamesWorkers`, and rests on this comparison.
* **Publication** is a record of what the arguments of `publish_data` depend on: addresses
  by role, S3, TLS, the roles of the relation (`worker_ports`), the mesh (`worker_labels`).
  Charm callbacks are functions of these and so are left out. Applications that have not
  published everything keep what they have.
* Events of all relations are one kind, `relation_changed`, since the reconciler does not
  look at the event. A change of a relation the module does not describe (logging, tracing,
  remote write) does nothing but queue it at every peer: `OtherRelationChanges`.

### Unit, and how Worker implements it

`Unit` says what a worker unit is to the rest of the cluster, with no steps inside of a
hook: an `input` (databag and role options) that may change at any time and queues an event
when it does; a hook that reads all of the input at once and takes an event off the queue;
files that are in flux while the hook runs, and that are, when it ends, those that *this* input
calls for. `WorkerUnit` maps `Worker` to it: the input is `remote` and `roles` (a relation
being removed counts as gone), the files are `disk` at rest, `stale` is an event other than
pebble-ready in the queue and `lost` a container that is away, or back with its
pebble-ready queued. All steps between the first and the last of a hook stutter, whatever
they push, where they fail and whenever the container is replaced.

### WorkerTracing

The CA file in the charm container has two writers in one hook:
`charm_tracing_config`, which puts the *server* certificate there when there is no file, and
`_sync_tls_files`, which puts the CA there, or removes the file. `rootCA` is that file,
`destination` what `ops_tracing` was told last: a receiver, and the text of that file at the time
or nothing. A destination that is no longer called for is not cleared, as in the code. The pod
(`PodDies`) takes the workload container and the charm's file with it, between hooks, and what
`ops_tracing` was told unless the charm's directory stays; a hook that dies with the pod is a
failed one before. A receiver is a function `ReceiverOf` of the databag.

`_setup_charm_tracing` runs *before* `_sync_tls_files`, so that what is in the file at the end of a
hook is not what `ops_tracing` was told in it. The hook that brings the first certificate tells it the
server certificate, which `charm_tracing_config` has put in the place of the missing file; one
that brings another bundle tells it the CA before. A unit with every event handled is
left with that (`worker_files` reaches such states), and no property claims otherwise.
`TracesFollow` says what the code does achieve: the receiver and the file are right at once, and
an update-status hook that finds nothing queued (`Refreshed`) tells the CA of the databag, after any
faults, deaths and retries. From then on `TrustKept` applies: no hook exchanges it for anything
else.

### Cluster

`Cluster` extends `Coordinator`. Every step of the coordinator is one of `Coordinator`, and
the steps that `Coordinator` takes for granted about applications (`UnitPublishes`) are made by the
hooks of worker units:

| in `Cluster` | stands for |
|---|---|
| `options` | the `role-X` options of each application, which the operator sets (`ConfigureRoles`) |
| `stale[u]`, `lost[u]`, `phase[u]`, `seen[u]`, `files[u]` | the worker unit `u`, as in `Unit` |
| `Input(u)` | the databag the coordinator has committed, or no relation, and the options |
| `TellUnits` | Juju queues an event at a unit when its `Input` has changed |
| `UnitFinishes(u)` | the end of a hook: its files, and what it publishes: the address, and, if `u` leads and its hook has read roles, the roles |
| `Lead` | which unit leads an application; it is the last one to go |

That a unit's hook may be summed up like this is what `WorkerImplementsUnit` (for `Worker`) and
`UnitsImplementUnit` (for `Cluster`) say of the one specification `Unit`. Juju lets the hooks of a
unit end before it takes the unit out of a relation (`AtRest`). Everything that may
disturb a cluster counts against `Disruptions`; units and applications that come do not, as
each comes once for every time it goes.

A refusal of the leader's write before `install` (the fault `denied` of `Worker`) is left to
`Worker`: the leader of an application that finishes a hook has published.

`Probe` is instantiated with a `Bundle` that `juju export-bundle` would give of the cluster's
state: the scale, and those options that differ from their default. The sums of the probe are
cardinalities: each unit of an application counts once for the default of all roles, and once
for every option of its application that is on and expands to the role.

### Telemetry

`Telemetry` adds to `Coordinator` what the telemetry is sent to: `sources` are the Loki units
(absent, joined, with a URL published), the charm's remote writes and the tracing receivers.
Each step of a coordinator's hook is extended by what it does with these, and a change of the
sources is an `OtherRelationChanges` of `Coordinator`: `ProxyConfig` goes to nginx in
`NginxReconciles`, and is gone (`NoProxy`) when the nginx container is replaced; the URLs
(`advertised`) and scrape jobs (`jobs`) go out in `HookCommits`, if the unit leads. A location is
its path and its backend, an upstream its name, lookup key and port; the address book
(`get_upstreams_to_addresses`) is the one map in which roles, units, hosts and receivers are keys,
merged in the order of the code. `Reaches` then follows a request through all of these to the
servers it may end at. Names are opaque: `Dashed` and `Label` give the names the code derives from
a unit or a host.

`TelemetryCorrelation` searches the datasources other charms have published. The code filters
the relations, sorts them by id, flattens their databags into a list, filters that twice
and takes its head; the module takes, of all the places of a datasource that passes the filters
(a place of a relation in Juju's listing, and one in its databag), the one that comes before
the others by the id of the relation and then by the order in the databag. That is the head
of the code's list, since ids are unique. `Stable` compares what is found in every listing of
every set of relations with the set of datasources that are eligible, and with what was found
before the newest relations came. `Ids` are the ids a relation may have.

## Runs

| run | module | what it asks | bounds |
|---|---|---|---|
| `worker_files` | `MCWorkerTracing` | do files, CA file and traces converge, is the right CA trusted from the next update-status on and kept, is an unconfigured worker clean, is a hook one step of `Unit`, with every fault | one role, one service, two databags that differ in config, TLS and the scheme of the receiver |
| `worker_services` | `MCWorker` | do publication, ports, labels and log targets follow the relation, and is `RelationSafety` inductive | one databag that has everything, and none; leadership moves; all faults but `denied` and `exec` |
| `worker_liveness` | `MCWorker` | does a service ever run with older files or an older layer, is the bundle trusted, does a config that stays reach every service, do restarts cease, are services stopped when the relation goes | one config with two certificates, no external failure |
| `worker_restart_lost` | `MCWorker` | **violation** of `ServicesRun`: the retried hook forgets that a restart is due | restarts may fail |
| `worker_logs_lost` | `MCWorker` | **violation** of `LogsForwarded`: a container that comes late gets no log targets | no fault |
| `worker_restart_loop` | `MCWorker` | **violation** of `RestartsCease`: layer and combined plan never agree again | two roles with a service each |
| `coordinator_tls` | `MCCoordinator` | is no certificate used that was issued for other workers, do nginx and publications follow certificates that come, go and are renewed, and do they come to rest | one peer, an app with two units, nginx container replaced at any time |
| `coordinator_leaders` | `MCCoordinator` | what do hooks of a former and of a new leader leave behind, in databags and in the policies both write | two peers, one app, S3 and mesh on and off, Kubernetes may refuse |
| `cluster` | `MCCluster` | from databags to files: does every worker end with the config of the present cluster, does it get there, are the roles of the leaders published, does the probe agree | one peer, an app of two units with a single role or the meta role `all`, S3 on and off, one disruption |
| `cluster_roles_kept` | `MCCluster` | **violation** of `CoherentIsAllocated`: roles switched off are still counted | as `cluster` |
| `telemetry` | `MCTelemetry` | does every URL and scrape job lead to what it stands for, through either unit; does each unit's nginx still route the roles; is the correlated datasource found, and kept; is `TelemetrySafety` inductive | two peers, one worker, one Loki unit, up to two remote writes, one receiver, certificates, one change; up to three relations to two apps, in any order |
| `telemetry_names` | `MCTelemetry` | **violation** of `UrlsLead`: a unit related for both logging and remote write | as `telemetry` with one peer and equal names |

One unit and one service are enough for the safety runs of `Worker`: a unit shares nothing with
its peers but the relation, and `restart` and `stop` treat services as a set; the
theorems hold for any number. Two databags give "the same", "another" and "none",
which is all the code compares; where the question is only whether a unit follows its
databag, one that comes and goes is enough and leaves room for faults. `RestartSafety` and
`NoStaleService` are checked without faults and proved with all that leave them true, and so is
`BundleTrusted`; `RolesRouted` is checked with hosts that have names of their own and proved for all that
are not called like a role. A queue of
events is a set: Juju coalesces a pending event of one
kind, and a hook reads the latest state whichever of two caused it.

For the coordinator two peers are enough for the former and the new leader, and for two
writers of one resource; the peers are alike and interchangeable (`PeerSymmetry`; only safety
properties are checked under it). Two units of an app let the names of a certificate
grow and shrink with a certificate in use before and after. Every run
leaves out what its question does not need (a mesh, an authority), by the sets `Authority`,
`Mesh`, `S3Infos` and `Faults`. The state of `Worker` and `Coordinator` is finite without a
counter.

Two bounds are counters. `Disruptions` in `Cluster` and `Changes` in `Telemetry` say how often
the surroundings may change. In `cluster` one disruption comes on top of a deployment in which
every arrival (relation, units, their options, the first hooks) is already free to
interleave, so that most of the orders that matter need none at all; the safety
properties are proved for any number. In `telemetry` the sources are arbitrary to begin with,
so that one change is a change from any state to any neighbour.

Two applications are beyond a run of a few minutes. Instances of `Cluster` with apps
`x` and `y` (three units and no disruption, 407 thousand states; one unit each and one
disruption) pass with all properties of `cluster`, and take four to six minutes.
`ClusterProofs` and `CoordinatorProofs` hold for any number of applications.

`tlc -config <run>.cfg <module>` repeats a run; the proofs are checked with
`tlapm <module>.tla`. The operators named `X_y` beside
an operator `X` are mutations of it, which violate a property of a run and show that it can fail.

**Quiet states.** Most properties speak of states in which every event was handled
(`Quiet`): while an event is pending the code cannot have acted on it. They are exactly
the states an operator sees at rest, and they include those in which a hook of a
filtered event or an update-status may still come.

**Fairness.** Weak fairness of the steps of a running hook and of Juju's retry of a failed
one; Kubernetes brings a container back (weak fairness); and strong fairness of the
dispatch of each queued event, since the queue is served in turn and
an event stays queued until its hook has run, while `Dispatch` of one event is disabled
whenever another hook runs. Nothing is assumed of the coordinator, the operator or
update-status hooks. The coordinator's fairness is the same, for each peer, and the authority
answers requests (weak fairness of `Issue`), which is all that `PublicationSettles` asks of
the outside; it has "from some time on the surroundings stay" in its premise.
`ConfigPropagates` and `RestartsCease` have "from some time on nothing
outside changes" in the premise.

`Cluster` has the coordinator's fairness, and for each worker unit weak fairness of the end and
of the retry of its hook. A unit whose container is away starts its hooks without it or, once
Kubernetes has brought it back, with it: strong fairness of `StartsWithContainer` says that a
unit does not for ever start only the other hooks in between. `WorkersGetConfig` needs no
premise about the surroundings: they run out of disruptions. `Telemetry` has safety properties
only.

## Proofs

`WorkerProofs` proves for every choice of databags, roles, services, layers and faults:

* `TypeCorrect`: `Spec => []TypeOK`.
* `UnconfiguredRunsNothing` and `FilesConverge`, with any faults. `NothingRunsUnconfigured` and
  `FilesFollowCoordinator` speak of quiet states only and are not inductive; `FileSafety`
  adds what each step of a hook has achieved (`TeardownInv`, `FilesInv`), that a hook
  with nothing queued behind it has read what is there (`FreshHook`), that a
  container that was replaced has an event queued, and which branch a hook can be on
  (`BranchInv`). The argument: whatever the surroundings change queues an event;
  while one is queued there is nothing to show; a hook that runs with an empty queue has
  read the current state and its steps achieve it; a failed hook is not quiet.
* `NoServiceIsStale`, under the assumptions that all layers name the same services
  (`SameServices`) and nothing fails between a change and its restart (`NoMidwayFaults`), from
  `RestartInv`: a service that is behind the files has a restart coming in this very hook. Both
  assumptions are needed; without the second the retried hook forgets the restart. What may
  fail in between is the layer callback and, where there is TLS, `update-ca-certificates` and a
  push. Where no databag has TLS these two may fail at will: the push of the config is
  then the first change of its hook, and one that fails changes nothing
  (`NothingBeforeConfig`). With TLS either of them breaks `NoStaleService` in TLC.
* `EveryServiceRuns`, if furthermore no restart fails.
* `RestartsComeInTime`: `RestartSafety`, under the same two assumptions as `NoServiceIsStale`.
* `RestartsNeedAChange`, what is safety in `RestartsCease`: a configured worker that is quiet
  has the files and the plan of its charm (`Calm`), and as long as nothing around it changes
  every step it makes, of a hook that finds nothing, fails or is retried, leaves it so and
  never gets to a restart. The invariant is `PlanInv`: what is in pebble's combined plan is
  one layer and nothing else. It holds if each layer names the services of every other one,
  those of the image (`BasePlan`) included, and the callback does not fail; `worker_restart_loop`
  shows what happens if a role has a service of its own.

`WorkerRelationProofs` proves what a unit writes for the coordinator and does on its behalf, from
`RelationSafety`, which puts four parts beside `FileSafety`: what a hook has drafted is what it
read (`PublicationInv`), ports are open on the branch that updates (`PortsInv`), labels are
patched at once and stay when the hook fails later (`LabelsInv`), log targets do not outlive
the container or the relation (`LogsInv`).

* `RelationIsSafe`: `Spec => []RelationSafety`, with any faults.
* `UnitIsPublished`: `UnitPublished`, if no write is `denied`. A refusal is swallowed
  and nothing is queued to repeat it, so that a quiet unit may be unpublished with it.
* `PortsAndLabelsConverge` and `LogsEndWithRelation`: `UnitFollowsCoordinator` and
  `NoLogsWithoutRelation` (which TLC checks within `RelationSafety`), with any faults. The first is where leadership and removal race:
  a leader elected after the labels were patched has `leader_elected` queued.
* `BundlesAreTrusted`: `BundleTrusted`, from `FileSafety` and `TrustInv`, if
  `update-ca-certificates` does not fail (`exec`): after a failure the retried hook finds the
  files as they should be and does not run it again.
* `LogsFollowWhileUp`: `LogsForwarded`, with any faults, for a container that is there as long as
  the relation is (`StaysUp`): without a `created` or `changed` event queued, and no such hook
  running or failed, the targets are those of the databag (`ForwardInv`). This is the other
  side of `worker_logs_lost`: only a container that is away at some time loses its targets.

`WorkerUnitProofs` proves that `Worker` implements `Unit` (`WorkerImplementsUnit`: initial states
map to initial states, each step to a step or a stutter), from `UnitSafety`. `FileSafety`
does not say enough: it speaks of hooks behind which nothing is queued, and `Unit` promises
the files of what was *read*, with whatever queued. `HookFiles` adds what each step of a hook
has achieved as a function of what the hook read, as long as the container is the one it
found, and `RolesAreFresh` that the roles read are those there are unless their
change is queued.

`WorkerTracingProofs` proves that tracing adds steps to `Worker`'s and takes none away
(`TracingImplementsWorker`), so that `TracingSpec` has all the properties proved of `Spec`
(`TracingIsSafe`), and from `TracingInv`:

* `TracesConverge`: `TracesFollow`. One half of the invariant (`StepsTraced`) follows the CA file
  through the hook: after the step `tls` it is the CA of the databag read, whatever
  `charm_tracing_config` has put there before. The other (`RefreshTraced`) says that an
  update-status with nothing else queued started at rest, so that it finds the right file
  even if it fails and is retried, and hands it on.
* `TrustIsKept`: `TrustKept`. Once the CA of the databag is in its file and trusted (`Secured`), every
  step that leaves the surroundings alone keeps it so.

`CoordinatorProofs` proves for every set of peers, applications, units, roles and meta roles:

* `CoordinatorTypeCorrect`: `Spec => []TypeOK`.
* `PoliciesConverge`, from `MeshSafety`: the policies are an object all peers overwrite. While
  one peer is not done nothing can be said of them; the step by which the last peer is done
  writes what it read with nothing queued, that is, the present.
* `CoordinatorIsSafe`: the inductive invariant `CoordinatorSafety`. From it follow
  `PublicationsConverge`, `NginxConverges` and `CertificatesNameWorkers`. The first two speak
  of quiet peers and need what their hooks have seen and done so far: with no event queued, a
  running hook has read the present (`ViewIsFresh`), a leader has decided to publish
  (`LeaderPublishes`: one elected since has `leader_elected` queued), and nginx follows the
  view (`NginxFollows`). Each kind of step has its lemma: what the surroundings change
  queues an event at whoever reads it (`SurroundingsSafe`); a hook touches no other
  peer (`HookLeavesOthers`: a peer that publishes is the leader when Juju keeps it, so
  no one overwrites what the quiet leader wrote); and renewing a request at the end of a
  hook changes no certificate in use (`CommitKeepsTLS`), so that what was computed at its
  start still holds. The third holds at every moment, of databags and nginx that were written by
  different hooks of different peers: each of them took its certificate from an answered
  request for the very names of its view (`TLSNames`).
* `PublishingNeedsAChange`, what is safety in `PublicationSettles`: a quiet leader that can
  handle events has asked for its certificate, set up its nginx and told every ready application
  (`HasPublished`), and no step of any peer changes its request, certificate, nginx or any
  app databag until the surroundings change or an event is queued for it: publishing does not
  feed on itself. It adds to
  `CoordinatorSafety` that a quiet peer has the request it needs (`RequestFollows`), and lives
  on a commit of the same request keeping the certificate (`CommittedHasPublished`).

`TelemetryProofs` proves for all endpoints, servers, names and numbers of changes:

* `TelemetryImplementsCoordinator`: each step is one of `Coordinator`, so that
  `CoordinatorSafety` holds in `Telemetry`.
* `TelemetryIsSafe`: the inductive invariant `TelemetrySafety`. With nothing queued a hook has
  read the present sources (`HeardIsFresh`), nginx proxies what it read (`ProxyFollows`), a quiet
  peer has asked for the certificate it needs (`RequestFollows`), and what the quiet leader
  advertises is of the present (`AdvertisedHolds`). Its proof takes from `CoordinatorSafety`
  that the view of such a hook is the present.
* `UrlsConverge` and `JobsConverge`: `UrlsLead` and `JobsLead`, under `NamesDiffer`: no two
  endpoints there may be have the same upstream name or the same key in the address book. The
  assumption is exactly what the code leaves to chance: the run `telemetry_names` violates
  it, and `UrlsLead` with it; `telemetry` satisfies it. The argument has two halves. The
  first is about states: all settled peers proxy the same configuration, whichever of them the
  host name leads to (`SettledAgree`). The second is about `ProxyConfig` as a function: of the
  locations, the one with the path of an endpoint is its own (`NamesAreTheirOwn`), a remote
  write is found under its place in the list (`RemoteWriteIsFound`), and the address book, merged
  from five maps, holds under the endpoint's key its own address (`AddressIsFound`); together,
  `PathLeads`.
* `RolesKeepTheirRoutes`: `RolesRouted`, under `RolesDiffer`: no endpoint has a role for its key in
  the address book, which starts from the addresses by role and is then updated. Units have a
  slash in their names and receivers a prefix; that no remote write has a host called like
  a role is what the code leaves open.
* `HostsDecideNames` and `HostsDecideRoles`: the two conditions are no assumptions about the
  proxy's tables but about hosts. If units are named as Juju names them and no unit is both a
  worker and a Loki (`UnitsAreNamed`, which `MCTelemetry` states of both instances as an
  assumption TLC evaluates), then `NamesDiffer` is *equivalent* to the remote
  writes having hosts whose first labels differ from each other, from the dashed units and
  from the receivers (`HostsAreApart`), and `RolesDiffer` to none of them being called
  like a role (`HostsAreNoRoles`). This is all an operator has to see to.
* `CorrelationKeeps`: `CorrelationIsStable`, for any number of relations with finitely many ids,
  databags of any length and every set of applications the search may be narrowed to. The ids and
  places in a databag are numbers, so that of the eligible places one comes first
  (well-founded order of pairs); a listing is a bijection between places and ids, so that the
  first place of two listings is the same datasource; and the relations older than some id
  that has a match keep their first place, as what is newer has a higher id.

`ClusterProofs` proves for every number of coordinators, applications, units and disruptions:

* `ClusterImplementsCoordinator`: the hooks of worker units change what the coordinator sees
  only in ways `Coordinator` allows its surroundings, hence every theorem about the
  coordinator holds in the cluster.
* `UnitsFollow`, that is `ClusterSafety`: a hook with nothing queued behind it has read what is
  there, and files at rest with nothing queued are those of the present input. The argument is
  `TellUnits`: nothing changes an input without queueing an event.
* `UnitsImplementUnit`: each unit of the cluster implements the same `Unit` as `Worker` does.
* `QuietClustersAreDelivered`: with nothing left to do, every worker of a coherent
  cluster runs with what the coordinator computes from the cluster as it is. This is where the
  two halves meet: `PublicationsConverge` of the coordinator and `UnitsFollow`.

`ProbeProofs` proves three more of the cluster:

* `PublishedRolesFollow`: `RolesArePublished`, with nothing left to do at the leader of an
  application that has roles, the app databag has the roles of its options. The invariant
  adds that the leader's hook with nothing queued has read the present (`UnitsFollow`), that no
  other unit writes the roles, and that the units joined to an application are its own
  (`JoinedAreOwn`).
* `ProbeIsRight`: `ProbeAgrees`, for finite `Units` and `Roles`, and under `DefaultMeansAll`, which
  is the probe's own assumption that an application without exported options has all
  roles. The probe counts pairs of an application, a number and an option, the coordinator
  counts units; numbering the units of each application injects the one set into the other
  (`CountedOnce`, `CountedOnceWithOptions`), and that each unit so reached is counted by the
  coordinator is `RolesArePublished`.
* `CoherentIsAllocatedWhileRolesStay`: `CoherentIsAllocated` whenever each related application
  has a role switched on and its leader in the relation (`RolesStay`), from `RolesArePublished`.
  `cluster_roles_kept` shows that the first is needed.

The assumptions on the constants are that the roles config is valid (its constructor raises
otherwise), that an app that publishes roles publishes at least one, that the
values for "nothing" differ from values (`NoData`, `NoRelation` and databags; `Torn` and
bundles), that the leader of an app is one of its units, that servers are pairs of a host and
a port, and that relation ids are finitely many numbers (`CorrelationAssumption`).

Model-checked only: the liveness properties (`ConfigPropagates`, `RestartsCease`,
`RemovalStopsServices`, `PublicationSettles`, `WorkersGetConfig`), which are out of the
prover's reach, as are fairness and ENABLED. Of `RestartsCease` and `PublicationSettles` the
half that is safety is proved: what they settle in is not left. Every safety property of
a passing run is the subject of a theorem. No module has a recursive operator.

## Findings

1. A restart that fails for good is lost (`worker_restart_lost`). The retried hook
   compares files and layer with what the failed one left, finds no change and succeeds.
2. Log forwarding is not set up in a container that starts after the relation-changed
   hook (`worker_logs_lost`). `LogsFollowWhileUp` proves that nothing is lost while the
   container is there.
3. With a service per role, a role change leaves the worker restarting its services on
   every event (`worker_restart_loop`). `RestartsNeedAChange` proves that with the same services in
   all layers it does not.
4. Roles that are switched off stay in the app databag, and the coordinator goes on as coherent
   with roles nobody runs (`cluster_roles_kept`). `CoherentIsAllocatedWhileRolesStay` says
   when it does not.
5. A unit that is related for logging and for remote write gets two nginx upstreams of one name
   (`telemetry_names`). `HostsDecideNames` lists the other ways to that.

Not filed as findings, as no line promises otherwise: mesh policies outlive a coordinator
that stops handling events; an application without units makes a deployment coherent; a
worker that joins turns TLS off for the whole cluster until the authority has answered; a charm
may trust the server certificate, or the CA before, for its traces until the next update-status (the
comment "Save the cacert in the charm container for charm traces" does not say from when on);
an `update-ca-certificates` that fails is not run again for the same bundle; ports are not
closed when the databag stops naming any.

## Not modelled

Of the modelled components: the hostname in the coordinator's peer databag, the coordinator's
own trace destination and the scrape jobs of its nginx exporters, which are single
assignments of what a hook reads; rewrites, directives and the texts of nginx configs, alert
rules and policies; several bundles in one run of the probe, and its options other than
`role-X`. In `Cluster` leadership of a worker application does not move (`worker_services` has
a leader that changes), and services are left to `Worker`.

Left out for good: the external libraries (S3, TLS certificates, Loki, Prometheus, Grafana,
catalogue, dashboards) beyond what the reconcilers use of them, since this repository only
hands data to them; collect-status handlers, which only report; and logging.

## Plan

Done: `Worker`, `Coordinator`, `Unit` with its two implementations, `WorkerTracing`, `Cluster`,
`Telemetry`, `TelemetryCorrelation`, `Probe`, and proofs of all the safety properties of
their runs. What is left would be new models rather than proofs:

1. Leadership of worker applications that moves in `Cluster`, with the fault `denied`.
2. The coordinator's own trace destination, in the manner of `WorkerTracing`.
3. What the charm's layer callback has to promise for restarts to come when it fails (hazard at
   `worker.py:574`).
