------------------------ MODULE WorkerRelationProofs ------------------------
(***************************************************************************)
(* Theorems about what a worker unit does for its coordinator outside of   *)
(* the workload's files: what it publishes, the ports it opens, the labels *)
(* of its pods, its log targets, and the trust store.                      *)
(***************************************************************************)
EXTENDS WorkerProofs

LEMMA InitRelation == Init => RelationParts
  BY WorkerAssumption
     DEF Init, RelationParts, PublicationInv, PortsInv, LabelsInv, LogsInv, AtRest, Reconciled,
         HasPublished, UpdateSteps, TeardownSteps, Configured

LEMMA SurroundingsRelation == FileSafety /\ RelationParts /\ Surroundings => RelationParts'
  <1> SUFFICES ASSUME FileSafety, RelationParts, Surroundings PROVE RelationParts'
    OBVIOUS
  <1> USE DEF RelationParts, PublicationInv, PortsInv, LabelsInv, LogsInv, AtRest, Reconciled,
              HasPublished, Leads, LabelsOf, HookReady, Configured, progress, unit, container,
              environment
  <1>1. CASE Relate
    BY <1>1 DEF Relate
  <1>2. CASE Unrelate
    BY <1>2 DEF Unrelate
  <1>3. CASE \E data \in Bags \cup {NoData} : CoordinatorWrites(data)
    BY <1>3 DEF CoordinatorWrites
  <1>4. CASE \E R \in SUBSET Roles : ConfigureRoles(R)
    BY <1>4 DEF ConfigureRoles
  <1>5. CASE ChangeLeadership
    BY <1>5 DEF ChangeLeadership
  <1>6. CASE ContainerDies
    BY <1>6 DEF ContainerDies
  <1>7. CASE ContainerStarts
    BY <1>7 DEF ContainerStarts
  <1>8. ASSUME NEW s \in Services, ServiceExits(s) PROVE RelationParts'
    BY <1>8 DEF ServiceExits
  <1> QED
    BY <1>1, <1>2, <1>3, <1>4, <1>5, <1>6, <1>7, <1>8 DEF Surroundings

LEMMA StartRelation ==
  FileSafety /\ RelationParts /\ ((\E event \in Events : Dispatch(event)) \/ Retry)
    => RelationParts'
  <1> USE DEF RelationParts, PublicationInv, PortsInv, LabelsInv, LogsInv, AtRest, Reconciled,
              HasPublished, Leads, HookReady, Configured, UpdateSteps, TeardownSteps,
              Enter, View, unit, container, environment
  <1>1. ASSUME NEW event \in Events, FileSafety, RelationParts, Dispatch(event)
        PROVE  RelationParts'
    <2>1. CASE event \in NON_RECONCILABLE_EVENTS
      <3>1. pending' = pending
        BY <1>1, <2>1 DEF Dispatch, QueuedEvents, NON_RECONCILABLE_EVENTS, FileSafety, Typed,
                          TypeOK
      <3> QED
        BY <1>1, <2>1, <3>1 DEF Dispatch
    <2>2. CASE event \notin NON_RECONCILABLE_EVENTS
      BY <1>1, <2>2 DEF Dispatch
    <2> QED
      BY <2>1, <2>2
  <1>2. FileSafety /\ RelationParts /\ Retry => RelationParts'
    BY DEF Retry, FileSafety, FileParts, HookEventInv
  <1> QED
    BY <1>1, <1>2

\* The reconciler publishes what it has read and patches the labels.
LEMMA ReconcileRelation == FileSafety /\ RelationParts /\ Reconcile => RelationParts'
  <1> SUFFICES ASSUME FileSafety, RelationParts, Reconcile PROVE RelationParts'
    OBVIOUS
  <1>1. pc = "reconcile" /\ pc' \in {"tls", "teardown"} /\ (pc' = "tls" => IsReady)
    BY DEF Reconcile
  <1>2. UNCHANGED <<environment, hook, container>>
    BY DEF Reconcile
  <1>3. PICK R \in IF hook.view = NoRelation THEN {draft.roles} ELSE PublishedRoles :
           draft' = [address |-> draft.address \/ hook.view # NoRelation,
                     roles   |-> R,
                     ports   |-> IF IsReady /\ hook.view.worker_ports # NoPorts
                                 THEN hook.view.worker_ports ELSE draft.ports]
    BY DEF Reconcile, Publish
  <1>4. hook.view # NoRelation /\ leader /\ hook.roles # {} /\ "denied" \notin Faults =>
           draft'.roles = hook.roles
    BY <1>3 DEF PublishedRoles
  <1>5. hook.view # NoRelation => draft'.address
    BY <1>3
  <1>6. PublicationInv'
    BY <1>1, <1>2, <1>4, <1>5 DEF PublicationInv, AtRest, Reconciled, Leads, environment
  <1>7. PortsInv'
    BY <1>1, <1>2, <1>3
       DEF PortsInv, AtRest, Reconciled, UpdateSteps
  <1>8. LabelsInv'
    BY <1>1, <1>2 DEF Reconcile, LabelsInv, AtRest, Leads, LabelsOf, environment
  <1>9. LogsInv'
    BY <1>1, <1>2 DEF RelationParts, LogsInv, environment, container
  <1> QED
    BY <1>6, <1>7, <1>8, <1>9 DEF RelationParts

\* A step of the hook that leads from one of its branches to itself or to its end.
LEMMA BranchRelation ==
  ASSUME FileSafety, RelationParts, UNCHANGED <<environment, hook, draft, unit, logs>>,
         \/ pc \in UpdateSteps /\ pc' \in UpdateSteps \cup {"emit"}
         \/ pc \in TeardownSteps /\ pc' \in TeardownSteps \cup {"emit"}
  PROVE  RelationParts'
  <1>1. hook.event \notin NON_RECONCILABLE_EVENTS
    BY DEF FileSafety, FileParts, HookEventInv, UpdateSteps, TeardownSteps
  <1>2. HasPublished /\ ~AtRest' /\ (pc' = "emit" => Reconciled')
    BY <1>1 DEF HasPublished, AtRest, Reconciled, UpdateSteps, TeardownSteps
  <1>3. PublicationInv'
    BY <1>2 DEF RelationParts, PublicationInv, Leads, environment, unit
  <1>4. PortsInv'
    <2>1. CASE pc \in UpdateSteps
      BY <1>2, <2>1 DEF RelationParts, PortsInv, HookReady, environment, unit
    <2>2. CASE pc \in TeardownSteps
      BY <1>2, <2>2 DEF FileSafety, FileParts, BranchInv, PortsInv, HookReady, Reconciled,
                        UpdateSteps, TeardownSteps, environment
    <2> QED
      BY <2>1, <2>2
  <1>5. LabelsInv'
    BY <1>2 DEF RelationParts, LabelsInv, Leads, LabelsOf, environment, unit
  <1>6. LogsInv'
    BY DEF RelationParts, LogsInv, environment, unit, UpdateSteps, TeardownSteps
  <1> QED
    BY <1>3, <1>4, <1>5, <1>6 DEF RelationParts

\* A failed hook has nothing to show, and what it drafted is gone.
LEMMA AbandonRelation ==
  ASSUME RelationParts, Abandon, UNCHANGED <<environment, unit, logs>>
  PROVE  RelationParts'
  BY DEF Abandon, RelationParts, PublicationInv, PortsInv, LabelsInv, LogsInv, AtRest,
         Reconciled, HasPublished, UpdateSteps, TeardownSteps, environment, unit

\* Juju keeps what the hook has drafted, and forgets a broken relation.
LEMMA EmitRelation == FileSafety /\ RelationParts /\ EmitClusterEvents => RelationParts'
  <1> SUFFICES ASSUME FileSafety, RelationParts, EmitClusterEvents PROVE RelationParts'
    OBVIOUS
  <1> USE DEF EmitClusterEvents, Forget
  <1>1. /\ HookEventInv /\ FreshHook
        /\ pc = "emit" /\ pc' = "idle" /\ AtRest'
        /\ link \in {"none", "up", "dying"}
      BY DEF FileSafety, FileParts, Typed, TypeOK, AtRest
  <1>2. PublicationInv'
    BY <1>1, WorkerAssumption
       DEF RelationParts, PublicationInv, AtRest, Reconciled, HasPublished, Leads, FreshHook,
           UpdateSteps, TeardownSteps, FileSafety, Typed, TypeOK
  <1>3. PortsInv'
    BY <1>1
       DEF RelationParts, PublicationInv, PortsInv, AtRest, Reconciled, FreshHook, Configured,
           HookReady, UpdateSteps
  <1>4. LabelsInv'
    <2> USE <1>1, WorkerAssumption
            DEF RelationParts, LabelsInv, LabelsOf, AtRest, Reconciled, HasPublished, Leads,
                UpdateSteps, TeardownSteps
    <2>1. CASE hook.event = "broken"
      BY <2>1 DEF HookEventInv, NON_RECONCILABLE_EVENTS
    <2>2. CASE hook.event # "broken"
      BY <2>2 DEF FreshHook
    <2> QED
      BY <2>1, <2>2
  <1>5. LogsInv'
    BY <1>1, WorkerAssumption
       DEF RelationParts, LogsInv, LogTargets, LokiEndpoints
  <1> QED
    BY <1>2, <1>3, <1>4, <1>5 DEF RelationParts

LEMMA HookRelation == FileSafety /\ RelationParts /\ (HookStep \/ Fault) => RelationParts'
  <1> SUFFICES ASSUME FileSafety, RelationParts, HookStep \/ Fault PROVE RelationParts'
    OBVIOUS
  <1> USE DEF container
  <1>1. CASE SyncTLSFiles \/ UpdateCACertificates \/ UpdateWorkerConfig \/ SetPebbleLayer
             \/ Restart \/ SkipRestart
    BY <1>1, BranchRelation DEF SyncTLSFiles, UpdateCACertificates, UpdateWorkerConfig,
       SetPebbleLayer, Restart, SkipRestart, UpdateSteps
  <1>2. CASE Teardown \/ WipeConfigs \/ Stop
    BY <1>2, BranchRelation DEF Teardown, WipeConfigs, Stop, TeardownSteps, FileSafety, FileParts
  <1>3. CASE RestartRefused \/ ConnectionLost \/ Fault
    BY <1>3, AbandonRelation DEF RestartRefused, ConnectionLost, Fault, StepFails,
       SyncTLSFilesFails, RestartFails, StopFails
  <1> QED
    BY <1>1, <1>2, <1>3, ReconcileRelation, EmitRelation DEF HookStep

\* The inductive invariant behind the next three theorems.
THEOREM RelationIsSafe == Spec => []RelationSafety
  <1>1. FileSafety /\ RelationParts /\ [Next]_vars => RelationParts'
    <2>1. FileSafety /\ RelationParts /\ UNCHANGED vars => RelationParts'
      BY DEF RelationParts, PublicationInv, PortsInv, LabelsInv, LogsInv, AtRest, Reconciled,
             HasPublished, Leads, LabelsOf, HookReady, Configured, vars
    <2> QED
      BY <2>1, SurroundingsRelation, StartRelation, HookRelation DEF Next
  <1> QED
    BY <1>1, InitRelation, FilesAreSafe, PTL DEF Spec, RelationSafety

\* Whatever hooks failed and whenever leadership came, once its events are handled the unit
\* has published its address, and its roles if it leads (_update_cluster_relation), provided
\* that Juju lets the leader write: _update_cluster_relation swallows the refusal of a write,
\* so that the hook succeeds without it and only the hook of a later event writes again.
THEOREM UnitIsPublished ==
  ASSUME "denied" \notin Faults
  PROVE  Spec => []UnitPublished
  <1>1. RelationSafety => UnitPublished
    BY DEF RelationSafety, RelationParts, PublicationInv, AtRest, UnitPublished, Quiet
  <1> QED
    BY <1>1, RelationIsSafe, PTL

\* Ports and labels are those of the databag as it is now, and the labels are gone when it is
\* (_reconcile), under every failure.
THEOREM PortsAndLabelsConverge == Spec => []UnitFollowsCoordinator
  <1>1. RelationSafety => UnitFollowsCoordinator
    BY DEF RelationSafety, RelationParts, PortsInv, LabelsInv, AtRest, UnitFollowsCoordinator,
           Quiet
  <1> QED
    BY <1>1, RelationIsSafe, PTL

\* A worker without relation forwards no logs (disable_logging), whichever of the broken
\* relation's hook, a failed one or a new container came first.
THEOREM LogsEndWithRelation == Spec => []NoLogsWithoutRelation
  <1>1. RelationSafety => NoLogsWithoutRelation
    BY DEF RelationSafety, RelationParts, LogsInv, NoLogsWithoutRelation
  <1> QED
    BY <1>1, RelationIsSafe, PTL

-----------------------------------------------------------------------------
(* The trust store. *)

LEMMA NextTrust ==
  ASSUME FileSafety, TrustInv, "exec" \notin Faults, [Next]_vars
  PROVE  TrustInv'
  <1> USE DEF TrustInv, progress, container
  <1>1. CASE Surroundings
    BY <1>1 DEF Surroundings, Relate, Unrelate, CoordinatorWrites, ConfigureRoles,
                ChangeLeadership, ContainerDies, ContainerStarts, ServiceExits, EmptyDisk
  <1>2. CASE (\E event \in Events : Dispatch(event)) \/ Retry
    BY <1>2 DEF Dispatch, Retry
  <1>3. CASE SyncTLSFiles
    <2>1. disk' = [disk EXCEPT !.tls = hook.view.tls] /\ trust' = trust
      BY <1>3 DEF SyncTLSFiles
    <2>2. disk.tls = hook.view.tls \/ pc' = "trust"
      BY <1>3 DEF SyncTLSFiles
    <2> QED
      BY <1>3, <2>1, <2>2 DEF SyncTLSFiles, FileSafety, Typed, TypeOK
  <1>4. CASE UpdateCACertificates
    BY <1>4 DEF UpdateCACertificates
  <1>5. CASE UpdateWorkerConfig
    BY <1>5 DEF UpdateWorkerConfig, FileSafety, Typed, TypeOK
  <1>6. CASE WipeConfigs
    BY <1>6 DEF WipeConfigs, EmptyDisk
  <1>7. CASE ConnectionLost
    BY <1>7 DEF ConnectionLost, FileSafety, FileParts, ContainerInv, Clean, EmptyDisk
  <1>8. CASE StepFails
    BY <1>8 DEF StepFails, FailsAt
  <1>9. CASE SyncTLSFilesFails
    BY <1>9 DEF SyncTLSFilesFails, FileSafety, Typed, TypeOK
  <1>10. CASE \/ Reconcile \/ SetPebbleLayer \/ Restart \/ SkipRestart \/ RestartRefused
              \/ Teardown \/ Stop \/ EmitClusterEvents \/ RestartFails \/ StopFails
    BY <1>10 DEF Reconcile, SetPebbleLayer, Restart, SkipRestart, RestartRefused, Teardown,
                 Stop, EmitClusterEvents, RestartFails, StopFails
  <1>11. CASE UNCHANGED vars
    BY <1>11 DEF vars
  <1> QED
    BY <1>1, <1>2, <1>3, <1>4, <1>5, <1>6, <1>7, <1>8, <1>9, <1>10, <1>11
       DEF Next, HookStep, Fault

\* The bundle of the databag is one that update-ca-certificates has seen since it was
\* written (_update_tls_certificates), also after pushes that failed half way and through
\* every death of the container.  The assumption is needed: a hook that fails in
\* update-ca-certificates finds no difference when it is retried.
THEOREM BundlesAreTrusted ==
  ASSUME "exec" \notin Faults
  PROVE  Spec => []BundleTrusted
  <1>1. Init => TrustInv
    BY DEF Init, TrustInv, EmptyDisk
  <1>2. FileSafety /\ TrustInv => BundleTrusted
    <2> SUFFICES ASSUME FileSafety, TrustInv, Quiet, up, Configured, remote.tls # NoTLS
                 PROVE  trust = remote.tls
      BY DEF BundleTrusted
    <2>1. disk.tls = remote.tls
      BY DEF FileSafety, FileParts, FilesInv, AtRest, Quiet
    <2>2. remote.tls \in Bundles
      BY DEF Configured, Bundles
    <2>3. disk.tls # Torn
      BY <2>1, <2>2, WorkerAssumption
    <2> QED
      BY <2>1, <2>3 DEF TrustInv, Quiet
  <1> QED
    BY <1>1, <1>2, NextTrust, FilesAreSafe, PTL DEF Spec

-----------------------------------------------------------------------------
(* The log targets of a container that stays. *)

\* Only the hooks of these two events refresh the targets of a relation.
Refreshes(event) == event \in {"created", "changed"}

\* With no such event queued, a hook of one has read the databag as it is, and without
\* such a hook, running or failed, the targets are those of the databag.
ForwardInv ==
    link = "up" /\ (\A event \in pending : ~Refreshes(event)) =>
        /\ pc \notin {"idle", "failed"} /\ Refreshes(hook.event) => hook.view = remote
        /\ remote \in Bags /\ (pc = "idle" \/ ~Refreshes(hook.event)) =>
              logs = remote.loki_endpoints

\* The container is there while the relation is.
StaysUp == link # "none" => up

LEMMA NextForward ==
  ASSUME FileSafety, ForwardInv, StaysUp, StaysUp', [Next]_vars
  PROVE  ForwardInv'
  <1> USE DEF ForwardInv, Refreshes, progress, unit, container, environment
  <1>1. CASE Surroundings
    BY <1>1 DEF Surroundings, Relate, Unrelate, CoordinatorWrites, ConfigureRoles,
                ChangeLeadership, ContainerDies, ContainerStarts, ServiceExits, StaysUp
  <1>2. ASSUME NEW event \in Events, Dispatch(event) PROVE ForwardInv'
    BY <1>2 DEF Dispatch, Enter, View, HookEventInv, Due, QueuedEvents
  <1>3. CASE Retry
    BY <1>3 DEF Retry, Enter, View, FileSafety, FileParts, HookEventInv
  <1>4. CASE EmitClusterEvents
    <2>1. CASE hook.event = "broken"
      BY <1>4, <2>1 DEF EmitClusterEvents
    <2>2. CASE hook.event # "broken"
      <3>1. /\ pc = "emit" /\ pc' = "idle" /\ UNCHANGED <<link, remote, pending>>
            /\ link = "up" => logs' = LogTargets
        BY <1>4, <2>2 DEF EmitClusterEvents, StaysUp
      <3>2. remote \in Bags /\ hook.view = remote /\ Refreshes(hook.event) =>
               LogTargets = remote.loki_endpoints
        BY <2>2, WorkerAssumption DEF LogTargets, LokiEndpoints
      <3>3. ~Refreshes(hook.event) => LogTargets = logs
        BY <2>2 DEF LogTargets
      <3> QED
        BY <3>1, <3>2, <3>3
    <2> QED
      BY <2>1, <2>2
  <1>5. CASE \/ Reconcile \/ SyncTLSFiles \/ UpdateCACertificates \/ UpdateWorkerConfig
             \/ SetPebbleLayer \/ Restart \/ SkipRestart \/ Teardown \/ WipeConfigs \/ Stop
    BY <1>5 DEF Reconcile, SyncTLSFiles, UpdateCACertificates, UpdateWorkerConfig,
                SetPebbleLayer, Restart, SkipRestart, Teardown, WipeConfigs, Stop,
                FileSafety, Typed, TypeOK
  <1>6. CASE RestartRefused \/ ConnectionLost \/ Fault
    BY <1>6 DEF RestartRefused, ConnectionLost, Fault, StepFails, FailsAt, SyncTLSFilesFails,
                RestartFails, StopFails, Abandon, Forget, PebbleSteps
  <1>7. CASE UNCHANGED vars
    BY <1>7 DEF vars
  <1> QED
    BY <1>1, <1>2, <1>3, <1>4, <1>5, <1>6, <1>7 DEF Next, HookStep

\* update_logging keeps its promise for a container that stays for as long as the relation
\* does: after any hooks that failed and any writes of the coordinator, logs go to the Loki
\* endpoints of the databag.  A container that is replaced is thus the only way to lose
\* them, which is what the run worker_logs_lost shows.
THEOREM LogsFollowWhileUp == Spec /\ []StaysUp => []LogsForwarded
  <1>1. Init => ForwardInv
    BY DEF Init, ForwardInv
  <1>2. ForwardInv => LogsForwarded
    BY DEF ForwardInv, LogsForwarded, Quiet
  <1> QED
    BY <1>1, <1>2, NextForward, FilesAreSafe, PTL DEF Spec
=============================================================================
