---------------------------- MODULE WorkerProofs ----------------------------
(***************************************************************************)
(* Theorems about Worker, for every set of databags, roles and services,   *)
(* every pebble_layer callback and every set of external failures.         *)
(***************************************************************************)
EXTENDS WorkerInv, TLAPS

-----------------------------------------------------------------------------
(* Types. *)

LEMMA InitTyped == Init => Typed
  <1> SUFFICES ASSUME Init PROVE Typed
    OBVIOUS
  <1> USE DEF Init
  <1>1. leader \in BOOLEAN /\ plan \in Plans
    BY WorkerAssumption
  <1>2. {draft, published} \subseteq [address: BOOLEAN, roles: SUBSET Roles, ports: PortSets]
    BY DEF Unpublished, PortSets
  <1>3. disk \in [config: Configs \cup {NoConfig}, tls: Bundles \cup {NoTLS, Torn}]
    BY DEF EmptyDisk
  <1>4. hook \in [event: Events \cup {"none"}, view: Bags \cup {NoData, NoRelation}, roles: SUBSET Roles]
    OBVIOUS
  <1>5. labels \in LabelSets /\ pc \in Steps /\ pc \notin UpdateSteps
    BY DEF LabelSets, Steps, UpdateSteps
  <1>6. service \in [Services -> Requests \cup {Down}]
    OBVIOUS
  <1> QED
    BY <1>1, <1>2, <1>3, <1>4, <1>5, <1>6 DEF Typed, TypeOK, UpdatesAreReady

\* The layer that a ready hook computes is a plan, and combines to a plan.
LEMMA LayerTyped ==
  ASSUME Typed, pc \in UpdateSteps
  PROVE  /\ Layer \in Plans
         /\ Combine(Layer, plan) \in Plans
  <1>1. hook.view \in Bags /\ hook.roles \in SUBSET Roles
    BY DEF Typed, TypeOK, UpdatesAreReady
  <1>2. Layer \in Plans
    BY <1>1, WorkerAssumption DEF Layer
  <1>3. plan \in Plans
    BY DEF Typed, TypeOK
  <1> QED
    BY <1>2, <1>3 DEF Plans, Combine

LEMMA CurrentTyped ==
  ASSUME TypeOK, NEW s \in Services
  PROVE  Current(s) \in Requests
  BY DEF TypeOK, Current, Requests, Plans

LEMMA SurroundingsTyped == Typed /\ Surroundings => Typed'
  <1> SUFFICES ASSUME Typed, Surroundings PROVE Typed'
    OBVIOUS
  <1> USE DEF Typed, UpdatesAreReady, progress, unit, container
  <1>1. CASE Relate
    BY <1>1 DEF Relate, TypeOK, QueuedEvents
  <1>2. CASE Unrelate
    BY <1>2 DEF Unrelate, TypeOK
  <1>3. CASE \E data \in Bags \cup {NoData} : CoordinatorWrites(data)
    BY <1>3 DEF CoordinatorWrites, TypeOK, QueuedEvents
  <1>4. CASE \E R \in SUBSET Roles : ConfigureRoles(R)
    BY <1>4 DEF ConfigureRoles, TypeOK, QueuedEvents
  <1>5. CASE ChangeLeadership
    BY <1>5, WorkerAssumption DEF ChangeLeadership, TypeOK, QueuedEvents
  <1>6. CASE ContainerDies
    BY <1>6, WorkerAssumption DEF ContainerDies, TypeOK, EmptyDisk
  <1>7. CASE ContainerStarts
    BY <1>7 DEF ContainerStarts, TypeOK, QueuedEvents
  <1>8. ASSUME NEW s \in Services, ServiceExits(s) PROVE Typed'
    <2>1. service' \in [Services -> Requests \cup {Down}]
      BY <1>8, CurrentTyped DEF ServiceExits, TypeOK
    <2> QED
      BY <1>8, <2>1 DEF ServiceExits, environment, TypeOK
  <1> QED
    BY <1>1, <1>2, <1>3, <1>4, <1>5, <1>6, <1>7, <1>8 DEF Surroundings

LEMMA DispatchTyped ==
  Typed /\ ((\E event \in Events : Dispatch(event)) \/ Retry) => Typed'
  <1> SUFFICES ASSUME Typed, (\E event \in Events : Dispatch(event)) \/ Retry
               PROVE  Typed'
    OBVIOUS
  <1> USE DEF Typed, UpdatesAreReady, UpdateSteps, Steps, PebbleSteps, Enter, View
  <1>1. ASSUME NEW event \in Events, Dispatch(event) PROVE Typed'
    BY <1>1 DEF Dispatch, TypeOK, unit, container
  <1>2. CASE Retry
    <2>1. hook.event \in Events \cup {"none"}
      BY DEF TypeOK
    <2> QED
      BY <1>2, <2>1 DEF Retry, TypeOK, environment, unit, container
  <1> QED
    BY <1>1, <1>2

LEMMA ReconcileTyped == Typed /\ Reconcile => Typed'
  <1> SUFFICES ASSUME Typed, Reconcile PROVE Typed'
    OBVIOUS
  <1> USE DEF Typed, TypeOK, Reconcile, environment, container
  <1>1. draft' \in [address: BOOLEAN, roles: SUBSET Roles, ports: PortSets]
    <2>1. PublishedRoles \subseteq SUBSET Roles
      BY DEF PublishedRoles
    <2>2. IsReady => hook.view.worker_ports \in PortSets
      BY DEF IsReady, PortSets
    <2>3. draft.ports \in PortSets /\ draft.roles \in SUBSET Roles /\ draft.address \in BOOLEAN
      OBVIOUS
    <2>4. PICK R \in SUBSET Roles :
             draft' = [address |-> draft.address \/ hook.view # NoRelation,
                       roles   |-> R,
                       ports   |-> IF IsReady /\ hook.view.worker_ports # NoPorts
                                   THEN hook.view.worker_ports ELSE draft.ports]
      BY <2>1, <2>3 DEF Publish
    <2>5. (draft.address \/ hook.view # NoRelation) \in BOOLEAN
      OBVIOUS
    <2> QED
      BY <2>2, <2>3, <2>4, <2>5
  <1>2. labels' \in LabelSets
    BY DEF LabelsOf, LabelSets
  <1>3. pc' \in Steps /\ (pc' \in UpdateSteps => IsReady)
    BY DEF Steps, PebbleSteps, UpdateSteps
  <1>4. UpdatesAreReady'
    BY <1>3 DEF UpdatesAreReady, IsReady
  <1> QED
    BY <1>1, <1>2, <1>3, <1>4

LEMMA UpdateTyped ==
  Typed /\ (SyncTLSFiles \/ UpdateCACertificates \/ UpdateWorkerConfig \/ SetPebbleLayer)
    => Typed'
  <1> USE DEF Typed, TypeOK, UpdatesAreReady, UpdateSteps, Steps, PebbleSteps, environment,
              unit, container
  <1>1. Typed /\ SyncTLSFiles => Typed'
    BY DEF Gathered, SyncTLSFiles, Bundles
  <1>2. Typed /\ UpdateCACertificates => Typed'
    BY DEF UpdateCACertificates
  <1>3. Typed /\ UpdateWorkerConfig => Typed'
    BY DEF Gathered, UpdateWorkerConfig, Configs
  <1>4. Typed /\ SetPebbleLayer => Typed'
    BY LayerTyped DEF Gathered, SetPebbleLayer
  <1> QED
    BY <1>1, <1>2, <1>3, <1>4

\* A hook that stops half way leaves well-typed traces of itself.
LEMMA AbandonTyped ==
  ASSUME TypeOK, Abandon
  PROVE  /\ pc' \in Steps /\ pc' \notin UpdateSteps
         /\ hook' \in [event: Events \cup {"none"}, view: Bags \cup {NoData, NoRelation},
                      roles: SUBSET Roles]
         /\ changed' \in BOOLEAN
         /\ draft' \in [address: BOOLEAN, roles: SUBSET Roles, ports: PortSets]
  <1>1. pc' = "failed" /\ draft' = published /\ changed' = FALSE
    BY DEF Abandon, Forget
  <1>2. hook' = [event |-> hook.event, view |-> NoRelation, roles |-> {}]
    BY DEF Abandon, Forget
  <1>3. hook.event \in Events \cup {"none"}
    BY DEF TypeOK
  <1> QED
    BY <1>1, <1>2, <1>3 DEF TypeOK, Steps, UpdateSteps

\* Services started anew, others kept or brought down.
LEMMA ServiceTyped ==
  ASSUME TypeOK, NEW f,
         f = [s \in Services |-> f[s]],
         \A s \in Services : f[s] \in {Down, service[s], Current(s)}
  PROVE  f \in [Services -> Requests \cup {Down}]
  <1>1. \A s \in Services : f[s] \in Requests \cup {Down}
    BY CurrentTyped DEF TypeOK
  <1> QED
    BY <1>1

LEMMA RestartTyped ==
  Typed /\ (Restart \/ SkipRestart \/ RestartRefused \/ RestartFails) => Typed'
  <1> USE DEF Typed, UpdatesAreReady, UpdateSteps, Steps, PebbleSteps, environment,
              unit, container
  <1>1. Typed /\ Restart => Typed'
    <2> SUFFICES ASSUME Typed, Restart PROVE Typed'
      OBVIOUS
    <2>1. service' \in [Services -> Requests \cup {Down}]
      BY ServiceTyped DEF Restart
    <2> QED
      BY <2>1 DEF Restart, TypeOK
  <1>2. Typed /\ SkipRestart => Typed'
    BY DEF SkipRestart, TypeOK
  <1>3. Typed /\ RestartRefused => Typed'
    BY AbandonTyped DEF RestartRefused, TypeOK
  <1>4. Typed /\ RestartFails => Typed'
    <2> SUFFICES ASSUME Typed, RestartFails PROVE Typed'
      OBVIOUS
    <2>1. service' \in [Services -> Requests \cup {Down}]
      <3>1. PICK started :
               service' = [s \in Services |->
                             CASE s \in started           -> Current(s)
                               [] s \in ServicesIn(Layer) -> Down
                               [] OTHER                   -> service[s]]
        BY DEF RestartFails
      <3>2. \A s \in Services : service'[s] \in {Down, service[s], Current(s)}
        BY <3>1
      <3> QED
        BY <3>1, <3>2, ServiceTyped
    <2> QED
      BY <2>1, AbandonTyped DEF RestartFails, TypeOK
  <1> QED
    BY <1>1, <1>2, <1>3, <1>4

LEMMA TeardownTyped ==
  Typed /\ (Teardown \/ WipeConfigs \/ Stop \/ StopFails) => Typed'
  <1> USE DEF Typed, UpdatesAreReady, UpdateSteps, Steps, PebbleSteps, environment,
              unit, container
  <1>1. Typed /\ Teardown => Typed'
    BY DEF Teardown, TypeOK
  <1>2. Typed /\ WipeConfigs => Typed'
    BY DEF WipeConfigs, TypeOK, EmptyDisk
  <1>3. Typed /\ Stop => Typed'
    BY DEF Stop, TypeOK
  <1>4. Typed /\ StopFails => Typed'
    BY AbandonTyped DEF StopFails, TypeOK
  <1> QED
    BY <1>1, <1>2, <1>3, <1>4

LEMMA EmitTyped == Typed /\ EmitClusterEvents => Typed'
  <1> SUFFICES ASSUME Typed, EmitClusterEvents PROVE Typed'
    OBVIOUS
  <1> USE DEF Typed, TypeOK, EmitClusterEvents, Forget
  <1>1. logs' \in SUBSET Endpoints
    BY DEF LogTargets, LokiEndpoints, Endpoints
  <1>2. published' \in [address: BOOLEAN, roles: SUBSET Roles, ports: PortSets]
    BY DEF Unpublished
  <1> QED
    BY <1>1, <1>2 DEF UpdatesAreReady, UpdateSteps, Steps

LEMMA FailureTyped == Typed /\ (ConnectionLost \/ StepFails \/ SyncTLSFilesFails) => Typed'
  <1> USE DEF Typed, TypeOK, UpdatesAreReady, UpdateSteps, Steps, environment, unit,
              container
  <1>1. Typed /\ ConnectionLost => Typed'
    BY AbandonTyped DEF ConnectionLost
  <1>2. Typed /\ StepFails => Typed'
    BY AbandonTyped DEF StepFails
  <1>3. Typed /\ SyncTLSFilesFails => Typed'
    BY AbandonTyped DEF SyncTLSFilesFails
  <1> QED
    BY <1>1, <1>2, <1>3

LEMMA NextTyped == Typed /\ [Next]_vars => Typed'
  <1>1. Typed /\ UNCHANGED vars => Typed'
    BY DEF Typed, TypeOK, UpdatesAreReady, vars
  <1> QED
    BY <1>1, SurroundingsTyped, DispatchTyped, ReconcileTyped, UpdateTyped, RestartTyped,
       TeardownTyped, EmitTyped, FailureTyped DEF Next, HookStep, Fault

\* Every reachable state of the worker is well typed, whatever fails and whenever the
\* container dies.
THEOREM TypeCorrect == Spec => []TypeOK
  <1>1. Spec => []Typed
    BY InitTyped, NextTyped, PTL DEF Spec
  <1> QED
    BY <1>1, PTL DEF Typed

-----------------------------------------------------------------------------
(* The files of the workload, and teardown. *)

LEMMA InitFiles == Init => FileParts
  BY DEF Init, FileParts, ContainerInv, HookEventInv, FreshHook, TeardownInv, BranchInv, FilesInv, Clean,
         Reconciled, AtRest, Configured, HookReady, TeardownSteps, NON_RECONCILABLE_EVENTS

\* In a fresh plan, or one a layer was combined with, a planned service stays planned.
LEMMA CombineKeeps ==
  ASSUME NEW layer \in Plans, NEW old \in Plans
  PROVE  ServicesIn(Combine(layer, old)) = ServicesIn(layer) \cup ServicesIn(old)
  BY DEF Combine, ServicesIn

LEMMA SurroundingsFiles == Typed /\ FileParts /\ Surroundings => FileParts'
  <1> SUFFICES ASSUME Typed, FileParts, Surroundings PROVE FileParts'
    OBVIOUS
  <1> USE DEF FileParts, ContainerInv, HookEventInv, FreshHook, TeardownInv, BranchInv, FilesInv, Clean,
              Reconciled, AtRest, Configured, HookReady, TeardownSteps,
              progress, unit, container, environment, ServicesIn
  <1>1. CASE Relate
    BY <1>1 DEF Relate
  <1>2. CASE Unrelate
    BY <1>2 DEF Unrelate
  <1>3. CASE \E data \in Bags \cup {NoData} : CoordinatorWrites(data)
    BY <1>3 DEF CoordinatorWrites
  <1>4. CASE \E R \in SUBSET Roles : ConfigureRoles(R)
    BY <1>4 DEF ConfigureRoles
  <1>5. CASE ChangeLeadership
    BY <1>5 DEF ChangeLeadership
  <1>6. CASE ContainerDies
    BY <1>6 DEF ContainerDies
  <1>7. CASE ContainerStarts
    BY <1>7 DEF ContainerStarts
  <1>8. ASSUME NEW s \in Services, ServiceExits(s) PROVE FileParts'
    <2>1. service \in [Services -> Requests \cup {Down}]
      BY DEF Typed, TypeOK
    <2>2. \A t \in Services : service[t] = Down => service'[t] = Down
      BY <1>8, <2>1 DEF ServiceExits
    <2>3. \A t \in Services : service'[t] # Down => service[t] # Down
      BY <2>2
    <2> QED
      BY <1>8, <2>2, <2>3 DEF ServiceExits
  <1> QED
    BY <1>1, <1>2, <1>3, <1>4, <1>5, <1>6, <1>7, <1>8 DEF Surroundings

LEMMA DispatchFiles ==
  Typed /\ FileParts /\ ((\E event \in Events : Dispatch(event)) \/ Retry) => FileParts'
  <1> SUFFICES ASSUME Typed, FileParts, (\E event \in Events : Dispatch(event)) \/ Retry
               PROVE  FileParts'
    OBVIOUS
  <1> USE DEF FileParts, ContainerInv, HookEventInv, FreshHook, TeardownInv, BranchInv, FilesInv, Clean,
              Reconciled, AtRest, Configured, HookReady, TeardownSteps,
              unit, container, environment, ServicesIn, Enter, View
  <1>1. ASSUME NEW event \in Events, Dispatch(event) PROVE FileParts'
    <2>1. event = "broken" => link = "dying"
      BY <1>1 DEF Dispatch, Due, QueuedEvents
    <2>2. event \in NON_RECONCILABLE_EVENTS => pending' = pending
      BY <1>1 DEF Dispatch, QueuedEvents, NON_RECONCILABLE_EVENTS, Typed, TypeOK
    <2> QED
      BY <1>1, <2>1, <2>2 DEF Dispatch
  <1>2. CASE Retry
    BY <1>2 DEF Retry
  <1> QED
    BY <1>1, <1>2

LEMMA ReconcileFiles == Typed /\ FileParts /\ Reconcile => FileParts'
  BY DEF FileParts, ContainerInv, HookEventInv, FreshHook, TeardownInv, BranchInv, FilesInv,
         Clean, Reconciled, AtRest, Configured, HookReady, TeardownSteps, ServicesIn,
         Reconcile, IsReady, environment, container

LEMMA UpdateFiles ==
  Typed /\ FileParts
        /\ (SyncTLSFiles \/ UpdateCACertificates \/ UpdateWorkerConfig \/ SetPebbleLayer)
    => FileParts'
  <1> USE DEF FileParts, ContainerInv, HookEventInv, FreshHook, TeardownInv, BranchInv,
              FilesInv, Clean, Reconciled, AtRest, Configured, HookReady, TeardownSteps,
              environment, unit
  <1>1. Typed /\ FileParts /\ SyncTLSFiles => FileParts'
    BY DEF SyncTLSFiles, Typed, TypeOK, ServicesIn
  <1>2. Typed /\ FileParts /\ UpdateCACertificates => FileParts'
    BY DEF UpdateCACertificates, ServicesIn
  <1>3. Typed /\ FileParts /\ UpdateWorkerConfig => FileParts'
    BY DEF UpdateWorkerConfig, Typed, TypeOK, ServicesIn
  <1>4. ASSUME Typed, FileParts, SetPebbleLayer PROVE FileParts'
    <2>1. Layer \in Plans /\ plan \in Plans
      BY <1>4, LayerTyped DEF SetPebbleLayer, UpdateSteps, Typed, TypeOK
    <2>2. ServicesIn(plan) \subseteq ServicesIn(plan)'
      <3>1. CASE plan' = plan
        BY <3>1 DEF ServicesIn
      <3>2. CASE plan' = Combine(Layer, plan)
        BY <2>1, <3>2, CombineKeeps DEF ServicesIn
      <3> QED
        BY <1>4, <3>1, <3>2 DEF SetPebbleLayer
    <2>3. HookReady /\ disk \in [config: Configs \cup {NoConfig}, tls: Bundles \cup {NoTLS, Torn}]
      BY <1>4 DEF SetPebbleLayer, Typed, TypeOK, UpdatesAreReady, UpdateSteps
    <2>4. disk = [config |-> disk.config, tls |-> disk.tls]
      BY <2>3
    <2> QED
      BY <1>4, <2>2, <2>3, <2>4 DEF SetPebbleLayer
  <1> QED
    BY <1>1, <1>2, <1>3, <1>4

LEMMA RestartFiles ==
  Typed /\ FileParts /\ (Restart \/ SkipRestart \/ RestartRefused \/ RestartFails)
    => FileParts'
  <1> SUFFICES ASSUME Typed, FileParts,
                      Restart \/ SkipRestart \/ RestartRefused \/ RestartFails
               PROVE  FileParts'
    OBVIOUS
  <1>a. pc = "restart"
    BY DEF Restart, SkipRestart, RestartRefused, RestartFails
  <1>b. HookReady /\ disk = [config |-> disk.config, tls |-> disk.tls]
    BY <1>a DEF HookReady, Typed, TypeOK, UpdatesAreReady, UpdateSteps
  <1> USE <1>a, <1>b
          DEF FileParts, ContainerInv, HookEventInv, FreshHook, TeardownInv, BranchInv,
              FilesInv, Clean, Reconciled, AtRest, Configured, TeardownSteps,
              environment, unit, container, Abandon, Forget
  <1>1. CASE Restart
    <2>1. \A s \in Services : service'[s] # Down => s \in ServicesIn(plan)
      BY <1>1 DEF Restart
    <2> QED
      BY <1>1, <2>1 DEF Restart, ServicesIn, HookReady
  <1>2. CASE SkipRestart
    BY <1>2 DEF SkipRestart, ServicesIn, HookReady
  <1>3. CASE RestartRefused
    BY <1>3 DEF RestartRefused, ServicesIn
  <1>4. CASE RestartFails
    <2>1. PICK started \in SUBSET (ServicesIn(Layer) \cap ServicesIn(plan)) :
             service' = [s \in Services |->
                            CASE s \in started           -> Current(s)
                              [] s \in ServicesIn(Layer) -> Down
                              [] OTHER                   -> service[s]]
      BY <1>4 DEF RestartFails
    <2>2. \A s \in Services : service'[s] # Down => s \in ServicesIn(plan)
      BY <2>1
    <2> QED
      BY <1>4, <2>2 DEF RestartFails, ServicesIn
  <1> QED
    BY <1>1, <1>2, <1>3, <1>4

LEMMA TeardownFiles ==
  Typed /\ FileParts /\ (Teardown \/ WipeConfigs \/ Stop \/ StopFails) => FileParts'
  <1> USE DEF FileParts, ContainerInv, HookEventInv, FreshHook, TeardownInv, BranchInv,
              FilesInv, Clean, Reconciled, AtRest, Configured, TeardownSteps, HookReady,
              environment, unit, container
  <1>1. Typed /\ FileParts /\ Teardown => FileParts'
    BY DEF Teardown, ServicesIn
  <1>2. Typed /\ FileParts /\ WipeConfigs => FileParts'
    BY DEF WipeConfigs, ServicesIn
  <1>3. ASSUME Typed, FileParts, Stop PROVE FileParts'
    <2>1. \A s \in Services : service'[s] = Down
      BY <1>3 DEF Stop
    <2> QED
      BY <1>3, <2>1 DEF Stop, ServicesIn
  <1>4. ASSUME Typed, FileParts, StopFails PROVE FileParts'
    <2>1. \A s \in Services : service'[s] # Down => service[s] # Down
      BY <1>4 DEF StopFails
    <2> QED
      BY <1>4, <2>1 DEF StopFails, ServicesIn, Abandon, Forget
  <1> QED
    BY <1>1, <1>2, <1>3, <1>4

LEMMA EmitFiles == Typed /\ FileParts /\ EmitClusterEvents => FileParts'
  <1> SUFFICES ASSUME Typed, FileParts, EmitClusterEvents PROVE FileParts'
    OBVIOUS
  <1> USE DEF FileParts, ContainerInv, HookEventInv, FreshHook, TeardownInv, BranchInv,
              FilesInv, Clean, Reconciled, AtRest, Configured, TeardownSteps, HookReady,
              ServicesIn, EmitClusterEvents, Forget
  <1>1. CASE hook.event = "broken"
    <2>1. Reconciled /\ ~HookReady
      BY <1>1, WorkerAssumption DEF NON_RECONCILABLE_EVENTS
    <2> QED
      BY <1>1, <2>1
  <1>2. CASE hook.event # "broken"
    BY <1>2, WorkerAssumption DEF Typed, TypeOK
  <1> QED
    BY <1>1, <1>2

LEMMA FailureFiles ==
  Typed /\ FileParts /\ (ConnectionLost \/ StepFails \/ SyncTLSFilesFails) => FileParts'
  <1> USE DEF FileParts, ContainerInv, HookEventInv, FreshHook, TeardownInv, BranchInv,
              FilesInv, Clean, Reconciled, AtRest, Configured, TeardownSteps, HookReady,
              ServicesIn, environment, unit, container, Abandon, Forget
  <1>1. Typed /\ FileParts /\ ConnectionLost => FileParts'
    BY DEF ConnectionLost, PebbleSteps, NON_RECONCILABLE_EVENTS
  <1>2. Typed /\ FileParts /\ StepFails => FileParts'
    BY DEF StepFails, FailsAt
  <1>3. Typed /\ FileParts /\ SyncTLSFilesFails => FileParts'
    BY DEF SyncTLSFilesFails
  <1> QED
    BY <1>1, <1>2, <1>3

LEMMA NextFiles == Typed /\ FileParts /\ [Next]_vars => FileParts'
  <1>1. Typed /\ FileParts /\ UNCHANGED vars => FileParts'
    BY DEF FileParts, ContainerInv, HookEventInv, FreshHook, TeardownInv, BranchInv, FilesInv,
           Clean, Reconciled, AtRest, Configured, TeardownSteps, HookReady, ServicesIn, vars
  <1> QED
    BY <1>1, SurroundingsFiles, DispatchFiles, ReconcileFiles, UpdateFiles, RestartFiles,
       TeardownFiles, EmitFiles, FailureFiles DEF Next, HookStep, Fault

\* The inductive invariant behind the next two theorems.
LEMMA FilesAreSafe == Spec => []FileSafety
  <1>1. Init => FileSafety
    BY InitTyped, InitFiles DEF FileSafety
  <1>2. FileSafety /\ [Next]_vars => FileSafety'
    BY NextTyped, NextFiles DEF FileSafety
  <1> QED
    BY <1>1, <1>2, PTL DEF Spec

\* A worker that has no relation, no config or no role runs no service and keeps no
\* file once its events are handled (_wipe_configs and stop), under every failure.
THEOREM UnconfiguredRunsNothing == Spec => []NothingRunsUnconfigured
  <1>1. FileSafety => NothingRunsUnconfigured
    BY DEF FileSafety, FileParts, TeardownInv, AtRest, Clean, NothingRunsUnconfigured, Quiet
  <1> QED
    BY <1>1, FilesAreSafe, PTL

\* Once its events are handled, a worker that is up has exactly the files of the
\* databag as it is now (_update_config), under every failure.
THEOREM FilesConverge == Spec => []FilesFollowCoordinator
  <1>1. FileSafety => FilesFollowCoordinator
    BY DEF FileSafety, FileParts, FilesInv, AtRest, FilesFollowCoordinator, Quiet
  <1> QED
    BY <1>1, FilesAreSafe, PTL

-----------------------------------------------------------------------------
(* Restarts, when no step between a change and its restart can fail. *)

LEMMA LayerServices ==
  ASSUME NEW L, SameServices(L), Typed, pc \in UpdateSteps
  PROVE  ServicesIn(Layer) = L
  BY DEF SameServices, Layer, Typed, TypeOK, UpdatesAreReady

\* What a service is behind of is only its own request, the files and the plan.
LEMMA UpToDateKept ==
  ASSUME NEW s, UpToDate(s), service'[s] = service[s], disk' = disk, plan'[s] = plan[s]
  PROVE  UpToDate(s)'
  BY DEF UpToDate, Current

LEMMA InitRestart == ASSUME NEW L PROVE Init => RestartInv(L)
  BY DEF Init, RestartInv, EmptyDisk

LEMMA SurroundingsRestart ==
  ASSUME NEW L \in SUBSET Services, Typed, FileParts, RestartInv(L), Surroundings
  PROVE  RestartInv(L)'
  <1>1. CASE UNCHANGED <<progress, container>>
    BY <1>1 DEF RestartInv, UpToDate, Current, progress, container, ServicesIn
  <1>2. CASE ContainerDies
    BY <1>2 DEF ContainerDies, RestartInv, EmptyDisk
  <1>3. ASSUME NEW t \in Services, ServiceExits(t) PROVE RestartInv(L)'
    <2>1. service \in [Services -> Requests \cup {Down}]
      BY DEF Typed, TypeOK
    <2>2. disk' = disk /\ plan' = plan /\ pc' = pc /\ changed' = changed
      BY <1>3 DEF ServiceExits, progress
    <2>3. ASSUME NEW s \in L, UpToDate(s), disk.config # NoConfig PROVE UpToDate(s)'
      <3>1. service'[s] = IF s = t THEN Current(s) ELSE service[s]
        BY <1>3, <2>1, <2>3 DEF ServiceExits
      <3> QED
        BY <2>2, <2>3, <3>1 DEF UpToDate, Current
    <2> QED
      BY <2>2, <2>3 DEF RestartInv, ServicesIn
  <1> QED
    BY <1>1, <1>2, <1>3 DEF Surroundings, Relate, Unrelate, CoordinatorWrites,
       ConfigureRoles, ChangeLeadership, ContainerStarts

LEMMA UpdateRestart ==
  ASSUME NEW L \in SUBSET Services, SameServices(L), Typed, FileParts, RestartInv(L),
         NoMidwayFaults,
         SyncTLSFiles \/ UpdateCACertificates \/ UpdateWorkerConfig \/ SetPebbleLayer
  PROVE  RestartInv(L)'
  <1> USE DEF UpdateSteps
  <1>1. CASE SyncTLSFiles
    <2>1. CASE disk.tls = hook.view.tls
      <3>1. disk' = disk
        BY <1>1, <2>1 DEF SyncTLSFiles, Typed, TypeOK
      <3> QED
        BY <1>1, <3>1 DEF SyncTLSFiles, RestartInv, UpToDate, Current, ServicesIn
    <2>2. CASE disk.tls # hook.view.tls
      BY <1>1, <2>2 DEF Gathered, SyncTLSFiles, RestartInv
    <2> QED
      BY <2>1, <2>2
  <1>2. CASE UpdateCACertificates
    BY <1>2 DEF UpdateCACertificates, RestartInv, UpToDate, Current
  <1>3. CASE UpdateWorkerConfig
    <2>1. CASE disk.config = hook.view.worker_config
      <3>1. disk' = disk
        BY <1>3, <2>1 DEF UpdateWorkerConfig, Typed, TypeOK
      <3> QED
        BY <1>3, <3>1 DEF Gathered, UpdateWorkerConfig, RestartInv, UpToDate, Current
    <2>2. CASE disk.config # hook.view.worker_config
      BY <1>3, <2>2 DEF Gathered, UpdateWorkerConfig, RestartInv
    <2> QED
      BY <2>1, <2>2
  <1>4. CASE SetPebbleLayer
    <2>1. ServicesIn(Layer) = L
      BY <1>4, LayerServices DEF SetPebbleLayer
    <2>2. Layer \in Plans /\ plan \in Plans
      BY <1>4, LayerTyped DEF SetPebbleLayer, Typed, TypeOK
    <2>3. /\ plan' = Combine(Layer, plan)
          /\ changed' = (changed \/ Layer # plan)
      BY <1>4 DEF Gathered, SetPebbleLayer, NoMidwayFaults
    <2>4. L \subseteq ServicesIn(plan')
      BY <2>1, <2>2, <2>3, CombineKeeps
    <2>5. CASE Layer = plan
      <3>1. plan' = plan
        BY <2>2, <2>3, <2>5 DEF Combine, Plans
      <3> QED
        BY <1>4, <2>3, <2>4, <2>5, <3>1
           DEF SetPebbleLayer, RestartInv, UpToDate, Current, ServicesIn
    <2>6. CASE Layer # plan
      BY <1>4, <2>3, <2>4, <2>6 DEF SetPebbleLayer, RestartInv, ServicesIn
    <2> QED
      BY <2>5, <2>6
  <1> QED
    BY <1>1, <1>2, <1>3, <1>4

LEMMA RestartRestart ==
  ASSUME NEW L \in SUBSET Services, SameServices(L), Typed, FileParts, RestartInv(L),
         NoMidwayFaults,
         Restart \/ SkipRestart \/ RestartRefused \/ RestartFails
  PROVE  RestartInv(L)'
  <1>a. pc = "restart" /\ pc' # "restart"
    BY DEF Restart, SkipRestart, RestartRefused, RestartFails, Abandon
  <1>b. ServicesIn(Layer) = L
    BY <1>a, LayerServices DEF UpdateSteps
  <1>1. CASE Restart
    BY <1>1, <1>a, <1>b DEF Restart, RestartInv, UpToDate, Current
  <1>2. CASE SkipRestart
    <2>1. disk.config = NoConfig
      BY <1>2 DEF SkipRestart, CanRestart, NoMidwayFaults, FileParts, ContainerInv, Clean,
                  EmptyDisk
    <2> QED
      BY <1>2, <1>a, <2>1 DEF SkipRestart, RestartInv, container
  <1>3. CASE RestartRefused
    BY <1>3, <1>a, <1>b DEF RestartRefused, CanRestart, RestartInv
  <1>4. CASE RestartFails
    <2>1. PICK started \in SUBSET (ServicesIn(Layer) \cap ServicesIn(plan)) :
             service' = [s \in Services |->
                            CASE s \in started           -> Current(s)
                              [] s \in ServicesIn(Layer) -> Down
                              [] OTHER                   -> service[s]]
      BY <1>4 DEF RestartFails
    <2>2. \A s \in L : service'[s] \in {Current(s), Down}
      BY <1>b, <2>1
    <2> QED
      BY <1>4, <1>a, <2>2 DEF RestartFails, RestartInv, UpToDate, Current
  <1> QED
    BY <1>1, <1>2, <1>3, <1>4

\* Without TLS files there is nothing to write before the config.
LEMMA NextNothing == Typed /\ NothingBeforeConfig /\ [Next]_vars => NothingBeforeConfig'
  <1> SUFFICES ASSUME Typed, NothingBeforeConfig, [Next]_vars, NoTLSFiles
               PROVE  /\ disk'.tls = NoTLS /\ pc' # "trust"
                      /\ pc' \in {"reconcile", "tls", "config"} => ~changed'
    BY DEF NothingBeforeConfig, NoTLSFiles
  <1> USE DEF NothingBeforeConfig, progress, container
  <1>1. CASE Surroundings
    BY <1>1 DEF Surroundings, Relate, Unrelate, CoordinatorWrites, ConfigureRoles,
                ChangeLeadership, ContainerDies, ContainerStarts, ServiceExits, EmptyDisk
  <1>2. CASE (\E event \in Events : Dispatch(event)) \/ Retry
    BY <1>2 DEF Dispatch, Retry, Enter
  <1>3. CASE SyncTLSFiles \/ SyncTLSFilesFails
    <2>1. hook.view \in Bags
      BY <1>3 DEF SyncTLSFiles, SyncTLSFilesFails, Typed, UpdatesAreReady, UpdateSteps
    <2>2. hook.view.tls = NoTLS
      BY <2>1 DEF NoTLSFiles, Bundles
    <2> QED
      BY <1>3, <2>2 DEF SyncTLSFiles, SyncTLSFilesFails, Gathered, Typed, TypeOK
  <1>4. CASE UpdateWorkerConfig
    BY <1>4 DEF UpdateWorkerConfig, Typed, TypeOK
  <1>5. CASE \/ Reconcile \/ UpdateCACertificates \/ SetPebbleLayer \/ Restart \/ SkipRestart
             \/ Teardown \/ WipeConfigs \/ Stop \/ EmitClusterEvents
    BY <1>5 DEF Reconcile, UpdateCACertificates, SetPebbleLayer, Restart, SkipRestart,
                Teardown, WipeConfigs, Stop, EmitClusterEvents, EmptyDisk
  <1>6. CASE RestartRefused \/ ConnectionLost \/ StepFails \/ RestartFails \/ StopFails
    BY <1>6 DEF RestartRefused, ConnectionLost, StepFails, RestartFails, StopFails, Abandon
  <1>7. CASE UNCHANGED vars
    BY <1>7 DEF vars
  <1> QED
    BY <1>1, <1>2, <1>3, <1>4, <1>5, <1>6, <1>7 DEF Next, HookStep, Fault

LEMMA NothingIsBeforeConfig == Spec => []NothingBeforeConfig
  <1>1. Init => NothingBeforeConfig
    BY DEF Init, NothingBeforeConfig, EmptyDisk
  <1> QED
    BY <1>1, NextNothing, InitTyped, NextTyped, PTL DEF Spec

LEMMA OtherRestart ==
  ASSUME NEW L \in SUBSET Services, Typed, FileParts, RestartInv(L), NoMidwayFaults,
         NothingBeforeConfig,
         \/ \E event \in Events : Dispatch(event)
         \/ Retry \/ Reconcile
         \/ Teardown \/ WipeConfigs \/ Stop \/ StopFails
         \/ EmitClusterEvents
         \/ ConnectionLost \/ StepFails \/ SyncTLSFilesFails
  PROVE  RestartInv(L)'
  <1> USE DEF RestartInv, UpToDate, Current, UpdateSteps
  <1>1. CASE (\E event \in Events : Dispatch(event)) \/ Retry
    BY <1>1 DEF Dispatch, Retry, Enter, container
  <1>2. CASE Reconcile
    BY <1>2 DEF Reconcile, container
  <1>3. CASE Teardown
    BY <1>3 DEF Teardown, container
  <1>4. CASE WipeConfigs
    BY <1>4 DEF WipeConfigs, EmptyDisk
  <1>5. CASE Stop \/ StopFails
    <2>1. disk.config = NoConfig
      BY <1>5 DEF Stop, StopFails, FileParts, TeardownInv, EmptyDisk
    <2> QED
      BY <1>5, <2>1 DEF Stop, StopFails, Abandon
  <1>6. CASE EmitClusterEvents
    BY <1>6 DEF EmitClusterEvents
  <1>7. CASE ConnectionLost
    <2>1. disk.config = NoConfig
      BY <1>7 DEF ConnectionLost, FileParts, ContainerInv, Clean, EmptyDisk
    <2> QED
      BY <1>7, <2>1 DEF ConnectionLost, Abandon, container
  <1>8. CASE StepFails
    <2>1. pc \notin UpdateSteps \ {"tls"} \/ ~changed
      BY <1>8 DEF StepFails, FailsAt, NoMidwayFaults, NothingBeforeConfig
    <2> QED
      BY <1>8, <2>1 DEF StepFails, Abandon, container
  <1>9. CASE SyncTLSFilesFails
    <2>1. NoTLSFiles /\ hook.view \in Bags
      BY <1>9 DEF SyncTLSFilesFails, NoMidwayFaults, Typed, UpdatesAreReady
    <2>2. hook.view.tls = NoTLS
      BY <2>1 DEF NoTLSFiles, Bundles
    <2> QED
      BY <1>9, <2>1, <2>2 DEF SyncTLSFilesFails, NothingBeforeConfig
  <1> QED
    BY <1>1, <1>2, <1>3, <1>4, <1>5, <1>6, <1>7, <1>8, <1>9

LEMMA NextRestart ==
  ASSUME NEW L \in SUBSET Services, SameServices(L), NoMidwayFaults
  PROVE  FileSafety /\ NothingBeforeConfig /\ RestartInv(L) /\ [Next]_vars => RestartInv(L)'
  <1>1. FileSafety /\ RestartInv(L) /\ UNCHANGED vars => RestartInv(L)'
    BY DEF RestartInv, UpToDate, Current, ServicesIn, vars
  <1> QED
    BY <1>1, SurroundingsRestart, UpdateRestart, RestartRestart, OtherRestart
       DEF FileSafety, Next, HookStep, Fault

\* No restart is missed, provided that the charm's layers name the same services and
\* nothing fails between a change and the restart.
LEMMA RestartsAreSafe ==
  ASSUME NEW L \in SUBSET Services, SameServices(L), NoMidwayFaults
  PROVE  Spec => []RestartInv(L)
  <1>1. Init => RestartInv(L)
    BY InitRestart
  <1>2. FileSafety /\ NothingBeforeConfig /\ RestartInv(L) /\ [Next]_vars => RestartInv(L)'
    BY NextRestart
  <1> QED
    BY <1>1, <1>2, FilesAreSafe, NothingIsBeforeConfig, PTL DEF Spec

\* A service that is behind the files or the plan has its restart coming in this very hook,
\* or no config file to run with (_update_config and restart).  Without the first assumption
\* services of other roles are not restarted, without the second a retried hook forgets.
\* Where there is no TLS, pushes and update-ca-certificates may fail all the same.
THEOREM RestartsComeInTime ==
  ASSUME SameServices(AllServices), NoMidwayFaults
  PROVE  Spec => []RestartSafety
  <1>1. AllServices \in SUBSET Services
    BY DEF AllServices
  <1>2. Init => RestartSafety
    BY InitRestart DEF RestartSafety
  <1>3. FileSafety /\ NothingBeforeConfig /\ RestartSafety /\ [Next]_vars => RestartSafety'
    BY <1>1, NextRestart DEF RestartSafety
  <1> QED
    BY <1>2, <1>3, FilesAreSafe, NothingIsBeforeConfig, PTL DEF Spec

\* A configured worker that is up and quiet has a config file.
LEMMA ConfigOnDisk ==
  ASSUME FileSafety, Quiet, up, Configured
  PROVE  disk.config # NoConfig
  <1>1. disk = [config |-> remote.worker_config, tls |-> remote.tls]
    BY DEF FileSafety, FileParts, FilesInv, AtRest, Quiet
  <1>2. remote.worker_config \in Configs
    BY DEF Configured, Configs
  <1>3. NoConfig \notin Configs
    BY WorkerAssumption
  <1> QED
    BY <1>1, <1>2, <1>3

\* A service that runs was started with the files on disk and the plan as they are
\* (_update_config and restart), even if restarts fail.
THEOREM NoServiceIsStale ==
  ASSUME NEW L \in SUBSET Services, SameServices(L), NoMidwayFaults
  PROVE  Spec => []NoStaleService
  <1>1. FileSafety /\ RestartInv(L) => NoStaleService
    <2> SUFFICES ASSUME FileSafety, RestartInv(L), Quiet, up, Configured,
                        NEW s \in ServicesIn(LayerOf[roles, remote])
                 PROVE  service[s] \in {Down, Current(s)}
      BY DEF NoStaleService
    <2>1. s \in L
      BY DEF Configured, SameServices, FileSafety, Typed, TypeOK
    <2> QED
      BY <2>1, ConfigOnDisk DEF RestartInv, UpToDate, Quiet, UpdateSteps
  <1> QED
    BY <1>1, FilesAreSafe, RestartsAreSafe, PTL

\* If restarts do not fail either, every service of the layer is running, through every
\* death of the container.  With failing restarts this is false: the run
\* worker_restart_lost is the counterexample.
THEOREM EveryServiceRuns ==
  ASSUME NEW L \in SUBSET Services, SameServices(L), NoMidwayFaults, "restart" \notin Faults,
         Down \notin Requests
  PROVE  Spec => []ServicesRun
  <1>1. FileSafety /\ RestartInv(L) => ServicesRun
    <2> SUFFICES ASSUME FileSafety, RestartInv(L), Quiet, up, Configured,
                        NEW s \in ServicesIn(LayerOf[roles, remote])
                 PROVE  service[s] # Down
      BY DEF ServicesRun
    <2>1. s \in L
      BY DEF Configured, SameServices, FileSafety, Typed, TypeOK
    <2>2. disk.config # NoConfig
      BY ConfigOnDisk
    <2>3. service[s] = Current(s)
      BY <2>1, <2>2 DEF RestartInv, UpToDate, Quiet, UpdateSteps
    <2> QED
      BY <2>1, <2>3, CurrentTyped DEF FileSafety, Typed
  <1> QED
    BY <1>1, FilesAreSafe, RestartsAreSafe, PTL

-----------------------------------------------------------------------------
(* No restart without a change. *)

\* A layer that names all services of the plan replaces it.
LEMMA CombineReplaces ==
  ASSUME NEW layer \in Plans, NEW old \in Plans, ServicesIn(old) \subseteq ServicesIn(layer)
  PROVE  Combine(layer, old) = layer
  BY DEF Plans, ServicesIn, Combine

\* A layer is a matter of roles and databag, as they are or as the hook has read them.
LEMMA LayersAgree ==
  /\ hook.roles = roles /\ hook.view = remote => Layer = LayerNow
  /\ UNCHANGED hook => UNCHANGED Layer
  /\ UNCHANGED <<roles, remote>> => UNCHANGED LayerNow
  BY Zenon DEF Layer, LayerNow

LEMMA SurroundingsPlan ==
  ASSUME NEW L, ServicesIn(BasePlan) \subseteq L, Typed, FileParts, PlanInv(L), Surroundings
  PROVE  PlanInv(L)'
  <1> USE LayersAgree DEF PlanInv, ServicesIn, AtRest, Reconciled, HookReady, Configured,
              progress, unit, container, environment
  <1>1. CASE ContainerDies
    BY <1>1 DEF ContainerDies
  <1>2. CASE Relate \/ Unrelate \/ ChangeLeadership \/ ContainerStarts
    BY <1>2 DEF Relate, Unrelate, ChangeLeadership, ContainerStarts
  <1>3. CASE (\E data \in Bags \cup {NoData} : CoordinatorWrites(data))
             \/ (\E R \in SUBSET Roles : ConfigureRoles(R))
    BY <1>3 DEF CoordinatorWrites, ConfigureRoles
  <1>4. CASE \E s \in Services : ServiceExits(s)
    BY <1>4 DEF ServiceExits
  <1> QED
    BY <1>1, <1>2, <1>3, <1>4 DEF Surroundings

LEMMA HookPlan ==
  ASSUME NEW L \in SUBSET Services, SameServices(L), "callback" \notin Faults,
         Typed, FileParts, PlanInv(L),
         (\E event \in Events : Dispatch(event)) \/ Retry \/ HookStep \/ Fault
  PROVE  PlanInv(L)'
  <1> USE LayersAgree
          DEF PlanInv, AtRest, Reconciled, HookReady, Configured, UpdateSteps, TeardownSteps,
              unit, container, environment
  <1>1. ASSUME NEW event \in Events, Dispatch(event) PROVE PlanInv(L)'
    <2>1. CASE event \in NON_RECONCILABLE_EVENTS
      <3>1. pending' = pending
        BY <1>1, <2>1 DEF Dispatch, QueuedEvents, NON_RECONCILABLE_EVENTS, Typed, TypeOK
      <3> QED
        BY <1>1, <2>1, <3>1 DEF Dispatch, Enter, ServicesIn
    <2>2. CASE event \notin NON_RECONCILABLE_EVENTS
      BY <1>1, <2>2 DEF Dispatch, Enter, ServicesIn
    <2> QED
      BY <2>1, <2>2
  <1>2. CASE Retry
    BY <1>2 DEF Retry, Enter, FileParts, HookEventInv, ServicesIn
  <1>3. CASE Reconcile \/ SyncTLSFiles \/ UpdateCACertificates \/ UpdateWorkerConfig
    BY <1>3 DEF Reconcile, SyncTLSFiles, UpdateCACertificates, UpdateWorkerConfig, ServicesIn
  <1>4. CASE SetPebbleLayer
    <2>1. ServicesIn(Layer) = L
      BY <1>4, LayerServices DEF SetPebbleLayer
    <2>2. Layer \in Plans /\ plan \in Plans
      BY <1>4, LayerTyped DEF SetPebbleLayer, Typed, TypeOK
    <2>3. plan' = Layer
      <3>1. Combine(Layer, plan) = Layer
        BY <2>1, <2>2, CombineReplaces
      <3> QED
        BY <1>4, <3>1 DEF SetPebbleLayer
    <2>4. Layer' = Layer /\ pc' \in {"restart", "emit"}
      BY <1>4 DEF SetPebbleLayer
    <2>5. ServicesIn(plan') = L /\ hook.event \notin NON_RECONCILABLE_EVENTS
      BY <1>4, <2>1, <2>3 DEF SetPebbleLayer, FileParts, HookEventInv
    <2> QED
      BY <1>4, <2>3, <2>4, <2>5 DEF SetPebbleLayer, ServicesIn
  <1>5. CASE Restart \/ SkipRestart
    BY <1>5 DEF Restart, SkipRestart, ServicesIn, FileParts, HookEventInv
  <1>6. CASE Teardown \/ WipeConfigs \/ Stop
    BY <1>6 DEF Teardown, WipeConfigs, Stop, FileParts, BranchInv, HookEventInv, ServicesIn
  <1>7. CASE EmitClusterEvents
    BY <1>7, WorkerAssumption
       DEF EmitClusterEvents, Forget, FileParts, FreshHook, HookEventInv, ServicesIn
  <1>8. CASE RestartRefused \/ ConnectionLost \/ Fault
    BY <1>8 DEF RestartRefused, ConnectionLost, Fault, StepFails, SyncTLSFilesFails,
                RestartFails, StopFails, Abandon, ServicesIn
  <1> QED
    BY <1>1, <1>2, <1>3, <1>4, <1>5, <1>6, <1>7, <1>8 DEF HookStep

\* The steps of a hook that finds no change, and what may fail in it.
LEMMA CalmStays ==
  ASSUME FileSafety, Calm, [Next]_vars, UNCHANGED environment
  PROVE  Calm'
  <1> USE LayersAgree DEF Calm, Configured, progress, unit, container, environment
  <1>a. /\ pc \notin {"idle", "failed"} => hook.roles = roles /\ hook.view = remote
        /\ plan \in Plans
    BY DEF FileSafety, FileParts, FreshHook, Typed, TypeOK
  <1>1. CASE Surroundings
    BY <1>1 DEF Surroundings, Relate, Unrelate, CoordinatorWrites, ConfigureRoles,
                ChangeLeadership, ContainerDies, ContainerStarts, ServiceExits
  <1>2. CASE (\E event \in Events : Dispatch(event)) \/ Retry
    BY <1>2 DEF Dispatch, Retry, Enter
  <1>3. CASE Reconcile
    BY <1>3, <1>a DEF Reconcile, IsReady
  <1>4. CASE SyncTLSFiles
    <2>1. disk' = disk /\ pc' = "config"
      BY <1>4, <1>a DEF SyncTLSFiles
    <2>2. ~Gathered(disk.tls # hook.view.tls)
      BY <1>4, <1>a DEF SyncTLSFiles, Gathered
    <2> QED
      BY <1>4, <2>1, <2>2 DEF SyncTLSFiles
  <1>5. CASE UpdateWorkerConfig
    <2>1. disk' = disk /\ pc' = "layer"
      BY <1>5, <1>a DEF UpdateWorkerConfig
    <2>2. ~Gathered(disk.config # hook.view.worker_config)
      BY <1>5, <1>a DEF UpdateWorkerConfig, Gathered
    <2> QED
      BY <1>5, <2>1, <2>2 DEF UpdateWorkerConfig
  <1>6. CASE SetPebbleLayer
    <2>1. Layer = plan
      BY <1>6, <1>a, LayersAgree DEF SetPebbleLayer
    <2>2. Combine(Layer, plan) = plan
      BY <1>a, <2>1, CombineReplaces
    <2>3. ~changed /\ ~Gathered(Layer # plan)
      BY <1>6, <2>1 DEF SetPebbleLayer, Gathered
    <2>4. plan' = plan /\ ~changed'
      BY <1>6, <2>2, <2>3 DEF SetPebbleLayer
    <2> QED
      BY <1>6, <2>4 DEF SetPebbleLayer
  <1>7. CASE EmitClusterEvents
    BY <1>7 DEF EmitClusterEvents
  <1>8. CASE StepFails \/ SyncTLSFilesFails
    BY <1>8, <1>a DEF StepFails, FailsAt, SyncTLSFilesFails, Abandon
  <1>9. CASE \/ UpdateCACertificates \/ Restart \/ SkipRestart \/ RestartRefused \/ Teardown
             \/ WipeConfigs \/ Stop \/ ConnectionLost \/ RestartFails \/ StopFails
    BY <1>9 DEF UpdateCACertificates, Restart, SkipRestart, RestartRefused, Teardown,
                WipeConfigs, Stop, ConnectionLost, RestartFails, StopFails
  <1>10. CASE UNCHANGED vars
    BY <1>10 DEF vars
  <1> QED
    BY <1>1, <1>2, <1>3, <1>4, <1>5, <1>6, <1>7, <1>8, <1>9, <1>10 DEF Next, HookStep, Fault

\* A configured worker that is at rest has the plan of its charm and is calm, and stays so
\* until something around it changes: neither update-status hooks, nor services that exit, nor
\* hooks that fail and are retried make it restart its services (_update_config, "restart the
\* workload if necessary").  This is what is safety in RestartsCease.  That a layer names all
\* the services of every other one is needed: the run worker_restart_loop has layers that do
\* not, and a worker that is never calm.
THEOREM RestartsNeedAChange ==
  ASSUME NEW L \in SUBSET Services, SameServices(L), ServicesIn(BasePlan) \subseteq L,
         "callback" \notin Faults
  PROVE  Spec => /\ [](Quiet /\ up /\ Configured => Calm)
                 /\ [][Calm /\ UNCHANGED environment => Calm']_vars
  <1>1. Init => PlanInv(L)
    BY WorkerAssumption DEF Init, PlanInv, AtRest, Configured
  <1>2. FileSafety /\ PlanInv(L) /\ [Next]_vars => PlanInv(L)'
    <2>1. PlanInv(L) /\ UNCHANGED vars => PlanInv(L)'
      BY LayersAgree DEF PlanInv, ServicesIn, AtRest, Reconciled, HookReady, Configured, vars
    <2> QED
      BY <2>1, SurroundingsPlan, HookPlan DEF FileSafety, Next
  <1>3. FileSafety /\ PlanInv(L) => (Quiet /\ up /\ Configured => Calm)
    BY DEF FileSafety, FileParts, FilesInv, PlanInv, AtRest, Quiet, Calm
  <1>4. FileSafety /\ [Next]_vars => [Calm /\ UNCHANGED environment => Calm']_vars
    BY CalmStays
  <1> QED
    BY <1>1, <1>2, <1>3, <1>4, FilesAreSafe, PTL DEF Spec
=============================================================================
