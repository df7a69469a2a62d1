-------------------------- MODULE WorkerUnitProofs --------------------------
(***************************************************************************)
(* Worker implements Unit, for every set of databags, roles and services,  *)
(* every pebble_layer callback and every set of external failures.         *)
(***************************************************************************)
EXTENDS WorkerUnit, WorkerProofs

-----------------------------------------------------------------------------
(* What the hooks of the unit do to a container that stays. *)

LEMMA InitUnit == Init => UnitParts
  BY DEF Init, UnitParts, RolesAreFresh, HookFiles, Present, Lost

LEMMA SurroundingsUnit == FileSafety /\ UnitParts /\ Surroundings => UnitParts'
  <1> SUFFICES ASSUME FileSafety, UnitParts, Surroundings PROVE UnitParts'
    OBVIOUS
  <1> USE DEF UnitParts, RolesAreFresh, HookFiles, Present, Lost, TeardownSteps, HookReady,
              Reconciled, progress, unit, container, environment
  <1>1. CASE Relate
    BY <1>1 DEF Relate
  <1>2. CASE Unrelate
    BY <1>2 DEF Unrelate
  <1>3. CASE \E data \in Bags \cup {NoData} : CoordinatorWrites(data)
    BY <1>3 DEF CoordinatorWrites
  <1>4. CASE \E R \in SUBSET Roles : ConfigureRoles(R)
    BY <1>4 DEF ConfigureRoles
  <1>5. CASE ChangeLeadership
    BY <1>5 DEF ChangeLeadership
  <1>6. CASE ContainerDies
    BY <1>6 DEF ContainerDies
  <1>7. CASE ContainerStarts
    BY <1>7 DEF ContainerStarts
  <1>8. ASSUME NEW s \in Services, ServiceExits(s) PROVE UnitParts'
    BY <1>8 DEF ServiceExits
  <1> QED
    BY <1>1, <1>2, <1>3, <1>4, <1>5, <1>6, <1>7, <1>8 DEF Surroundings

LEMMA DispatchUnit ==
  FileSafety /\ UnitParts /\ ((\E event \in Events : Dispatch(event)) \/ Retry) => UnitParts'
  <1> USE DEF UnitParts, RolesAreFresh, HookFiles, Present, Lost, TeardownSteps,
              Reconciled, Enter, unit, container, environment
  <1>1. ASSUME NEW event \in Events, FileSafety, UnitParts, Dispatch(event) PROVE UnitParts'
    BY <1>1 DEF Dispatch
  <1>2. FileSafety /\ UnitParts /\ Retry => UnitParts'
    BY DEF Retry, FileSafety, FileParts, HookEventInv
  <1> QED
    BY <1>1, <1>2

LEMMA HookUnit == FileSafety /\ UnitParts /\ HookStep => UnitParts'
  <1> SUFFICES ASSUME FileSafety, UnitParts, HookStep PROVE UnitParts'
    OBVIOUS
  <1> USE DEF UnitParts, RolesAreFresh, HookFiles, Present, Lost, TeardownSteps, HookReady,
              Reconciled, UpdateSteps, Abandon, Forget, environment, unit, container
  <1>a. Typed
    BY DEF FileSafety
  <1>b. disk = [config |-> disk.config, tls |-> disk.tls]
    BY <1>a DEF Typed, TypeOK
  <1>1. CASE Reconcile
    BY <1>1 DEF Reconcile, IsReady
  <1>2. CASE SyncTLSFiles \/ UpdateCACertificates \/ UpdateWorkerConfig
    BY <1>2, <1>a, <1>b DEF SyncTLSFiles, UpdateCACertificates, UpdateWorkerConfig, Typed, TypeOK
  <1>3. CASE SetPebbleLayer
    BY <1>3, <1>b DEF SetPebbleLayer
  <1>4. CASE Restart \/ SkipRestart \/ RestartRefused
    BY <1>4, <1>b DEF Restart, SkipRestart, RestartRefused
  <1>5. CASE Teardown \/ WipeConfigs \/ Stop
    BY <1>5 DEF Teardown, WipeConfigs, Stop
  <1>6. CASE EmitClusterEvents
    BY <1>6 DEF EmitClusterEvents
  <1>7. CASE ConnectionLost
    BY <1>7 DEF ConnectionLost
  <1> QED
    BY <1>1, <1>2, <1>3, <1>4, <1>5, <1>6, <1>7 DEF HookStep

LEMMA FaultUnit == FileSafety /\ UnitParts /\ Fault => UnitParts'
  BY DEF UnitParts, RolesAreFresh, HookFiles, Present, Lost, TeardownSteps, Reconciled,
         Abandon, Forget, environment, unit, container,
         Fault, StepFails, SyncTLSFilesFails, RestartFails, StopFails

THEOREM UnitIsSafe == Spec => []UnitSafety
  <1>1. FileSafety /\ UnitParts /\ [Next]_vars => UnitParts'
    <2>1. FileSafety /\ UnitParts /\ UNCHANGED vars => UnitParts'
      BY DEF UnitParts, RolesAreFresh, HookFiles, Present, Lost, TeardownSteps, HookReady,
             Reconciled, vars
    <2> QED
      BY <2>1, SurroundingsUnit, DispatchUnit, HookUnit, FaultUnit DEF Next
  <1> QED
    BY <1>1, InitUnit, FilesAreSafe, PTL DEF Spec, UnitSafety

-----------------------------------------------------------------------------
(* Every step is a step of Unit under the mapping, or none. *)

\* What a hook reads is an input.
LEMMA InputTyped ==
  ASSUME Typed
  PROVE  /\ Input \in Inputs
         /\ Phase = "hook" => Seen \in Inputs /\ Seen = [view |-> hook.view, roles |-> hook.roles]
         /\ disk \in Disks
  BY DEF Typed, TypeOK, Input, Inputs, Phase, Seen, Disks

LEMMA InitSimulates == Init => U!Init
  <1> SUFFICES ASSUME Init PROVE U!Init
    OBVIOUS
  <1>1. Input \in Inputs
    BY InitTyped, InputTyped
  <1>2. Stale = FALSE /\ Lost \in BOOLEAN /\ Phase = "rest"
    BY DEF Init, Stale, Lost, Phase, AtRest
  <1>3. Seen = NoInput /\ Files = EmptyDisk
    BY <1>2 DEF Init, Seen, Files
  <1> QED
    BY <1>1, <1>2, <1>3 DEF U!Init

\* What surrounds the unit changes its input and says so, or takes its container.
LEMMA SurroundingsSimulate == UnitSafety /\ Surroundings => [U!Next]_(U!vars)
  <1> SUFFICES ASSUME UnitSafety, Surroundings PROVE [U!Next]_(U!vars)
    OBVIOUS
  <1>a. Typed /\ Typed'
    BY SurroundingsTyped DEF UnitSafety, FileSafety
  <1>b. Input' \in Inputs
    BY <1>a DEF Typed, TypeOK, Input, Inputs
  <1> USE DEF progress, unit, container, environment
  <1>c. UNCHANGED <<Phase, Seen>>
    BY DEF Surroundings, Relate, Unrelate, CoordinatorWrites, ConfigureRoles, ChangeLeadership,
           ContainerDies, ContainerStarts, ServiceExits, Phase, Seen, AtRest
  <1>1. CASE /\ UNCHANGED <<up, disk>>
             /\ Stale'
             /\ "pebble_ready" \in pending' <=> "pebble_ready" \in pending
    <2>1. UNCHANGED <<Lost, Files>>
      BY <1>1, <1>c DEF Lost, Files
    <2> QED
      BY <1>1, <1>b, <1>c, <2>1 DEF U!Next, U!Change, Stale
  <1>2. CASE ContainerDies
    <2>1. UNCHANGED <<Input, Stale>> /\ Lost'
      BY <1>2 DEF ContainerDies, Input, Stale, Lost
    <2>2. Files' = IF Phase = "rest" THEN EmptyDisk ELSE Files
      BY <1>2, <1>c DEF ContainerDies, Files
    <2> QED
      BY <1>c, <2>1, <2>2 DEF U!Next, U!Lose, Lost
  <1>3. CASE ContainerStarts
    BY <1>3, <1>c DEF ContainerStarts, U!vars, Input, Stale, Lost, Files
  <1>4. CASE UNCHANGED <<link, remote, roles, pending, up, disk>>
    BY <1>4, <1>c DEF U!vars, Input, Stale, Lost, Files
  <1>5. CASE Relate \/ Unrelate \/ \E data \in Bags \cup {NoData} : CoordinatorWrites(data)
    BY <1>1, <1>5 DEF Relate, Unrelate, CoordinatorWrites, Stale
  <1>6. CASE (\E R \in SUBSET Roles : ConfigureRoles(R)) \/ ChangeLeadership
    BY <1>1, <1>4, <1>6 DEF ConfigureRoles, ChangeLeadership, Stale
  <1>7. CASE \E s \in Services : ServiceExits(s)
    BY <1>4, <1>7 DEF ServiceExits
  <1> QED
    BY <1>2, <1>3, <1>5, <1>6, <1>7 DEF Surroundings

\* A hook that starts reads the input, or something else than the present with more to come.
LEMMA EnterSimulates ==
  ASSUME UnitSafety, pc \in {"idle", "failed"}, NEW event, event \notin NON_RECONCILABLE_EVENTS,
         Enter(event), event = "broken" => link = "dying",
         pending' \in {pending, pending \ {event}},
         UNCHANGED <<link, remote, roles, leader, up, unit, container>>
  PROVE  [U!Next]_(U!vars)
  <1>1. Phase' = "hook" /\ Phase = IF pc = "idle" THEN "rest" ELSE "failed"
    BY DEF Enter, Phase, AtRest
  <1>2. UNCHANGED Input /\ Input \in Inputs
    BY InputTyped DEF UnitSafety, FileSafety, Input
  <1>3. Stale' \in {Stale, FALSE} /\ Lost' \in {Lost, FALSE}
    BY DEF Stale, Lost
  <1>4. Seen' = [view |-> View(event), roles |-> roles]
    BY <1>1 DEF Enter, Seen
  <1>5. Seen' \in Inputs
    BY <1>4 DEF UnitSafety, FileSafety, Typed, TypeOK, View, Inputs
  <1>6. ~Stale' => Seen' = Input
    BY <1>4 DEF UnitSafety, FileSafety, Typed, TypeOK, View, Input, Stale
  <1>7. Files' = InFlux
    BY <1>1 DEF Files
  <1> QED
    BY <1>1, <1>2, <1>3, <1>5, <1>6, <1>7 DEF U!Next, U!Start, U!Retry, U!Read

LEMMA DispatchSimulates ==
  ASSUME UnitSafety, NEW event \in Events, Dispatch(event)
  PROVE  [U!Next]_(U!vars)
  <1>1. CASE event \in NON_RECONCILABLE_EVENTS
    <2>1. pending' = pending /\ UNCHANGED <<link, remote, roles, up, disk>>
      BY <1>1 DEF Dispatch, UnitSafety, FileSafety, Typed, TypeOK, QueuedEvents,
             NON_RECONCILABLE_EVENTS, container
    <2>2. AtRest /\ AtRest' /\ pc # "failed" /\ pc' # "failed"
      BY <1>1 DEF Dispatch, Enter, AtRest
    <2>3. UNCHANGED <<Phase, Seen, Files>>
      BY <2>1, <2>2 DEF Phase, Seen, Files
    <2> QED
      BY <2>1, <2>3 DEF U!vars, Input, Stale, Lost
  <1>2. CASE event \notin NON_RECONCILABLE_EVENTS
    BY <1>2, EnterSimulates DEF Dispatch, Due, QueuedEvents
  <1> QED
    BY <1>1, <1>2

LEMMA RetrySimulates == ASSUME UnitSafety, Retry PROVE [U!Next]_(U!vars)
  <1>1. hook.event \notin NON_RECONCILABLE_EVENTS
    BY DEF UnitSafety, FileSafety, FileParts, HookEventInv, Retry
  <1> QED
    BY <1>1, EnterSimulates DEF Retry, UnitSafety, FileSafety, FileParts, HookEventInv,
                                environment

\* Steps inside a hook show nothing.
LEMMA InsideSimulates ==
  ASSUME UnitSafety, pc \notin {"idle", "emit", "failed"}, pc' \notin {"idle", "failed"},
         UNCHANGED <<environment, hook>>
  PROVE  [U!Next]_(U!vars)
  <1>1. Phase = "hook" /\ Phase' = "hook"
    BY DEF UnitSafety, FileSafety, FileParts, HookEventInv, Phase, AtRest
  <1> QED
    BY <1>1 DEF U!vars, Input, Stale, Lost, Seen, Files, environment

\* A hook that fails leaves the rest to its retry.
LEMMA FailureSimulates ==
  ASSUME UnitSafety, Phase = "hook", Abandon, UNCHANGED environment
  PROVE  [U!Next]_(U!vars)
  <1>1. Phase' = "failed" /\ Seen' = NoInput /\ Files' = InFlux /\ Files = InFlux
    BY DEF Abandon, Phase, Seen, Files
  <1>2. UNCHANGED <<Input, Stale, Lost>>
    BY DEF environment, Input, Stale, Lost
  <1> QED
    BY <1>1, <1>2 DEF U!Next, U!Fail

\* The last step of a hook: the files are those of what it has read.
LEMMA EmitSimulates == ASSUME UnitSafety, EmitClusterEvents PROVE [U!Next]_(U!vars)
  <1>a. Typed /\ FileParts /\ UnitParts
    BY DEF UnitSafety, FileSafety
  <1>1. Phase' = "rest" /\ Seen' = NoInput /\ Files' = disk /\ disk' = disk
    BY DEF EmitClusterEvents, Phase, AtRest, Seen, Files
  <1>2. CASE hook.event \in NON_RECONCILABLE_EVENTS
    <2>1. Phase = "rest" /\ Seen = NoInput /\ Files = disk
      BY <1>2 DEF EmitClusterEvents, Phase, AtRest, Seen, Files
    <2> QED
      BY <1>1, <1>2, <2>1 DEF EmitClusterEvents, U!vars, Input, Stale, Lost,
                              NON_RECONCILABLE_EVENTS
  <1>3. CASE hook.event \notin NON_RECONCILABLE_EVENTS
    <2>1. Phase = "hook" /\ Reconciled
      BY <1>3 DEF EmitClusterEvents, Phase, AtRest, Reconciled
    <2>2. Seen = [view |-> hook.view, roles |-> hook.roles] /\ Seen \in Inputs
      BY <1>a, <2>1, InputTyped
    <2>3. UNCHANGED <<Input, Lost>>
      BY <1>a DEF EmitClusterEvents, FileParts, HookEventInv, Input, Lost
    <2>4. Files' \in IF Lost THEN Disks ELSE {WantedFiles[Seen]}
      <3>1. CASE HookReady
        BY <1>1, <1>a, <2>1, <2>2, <3>1, InputTyped
           DEF UnitParts, HookFiles, Present, HookReady, WantedFiles
      <3>2. CASE ~HookReady
        BY <1>1, <1>a, <2>1, <2>2, <3>2, InputTyped
           DEF FileParts, TeardownInv, Clean, HookReady, WantedFiles
      <3> QED
        BY <3>1, <3>2
    <2>5. Stale' \in {Stale, FALSE}
      BY <1>a DEF EmitClusterEvents, FileParts, HookEventInv, Stale
    <2>6. Stale' = Stale \/ Seen = Input
      BY <1>a, <2>2 DEF EmitClusterEvents, FileParts, HookEventInv, UnitParts, RolesAreFresh,
                        Stale, Input
    <2> QED
      BY <1>1, <2>1, <2>3, <2>4, <2>5, <2>6 DEF U!Next, U!Finish
  <1> QED
    BY <1>2, <1>3

LEMMA HookSimulates == ASSUME UnitSafety, HookStep \/ Fault PROVE [U!Next]_(U!vars)
  <1> USE DEF environment, unit, container
  <1>1. CASE \/ Reconcile \/ SyncTLSFiles \/ UpdateCACertificates \/ UpdateWorkerConfig
             \/ SetPebbleLayer \/ Restart \/ SkipRestart \/ Teardown \/ WipeConfigs \/ Stop
    BY <1>1, InsideSimulates
       DEF Reconcile, SyncTLSFiles, UpdateCACertificates, UpdateWorkerConfig, SetPebbleLayer,
           Restart, SkipRestart, Teardown, WipeConfigs, Stop
  <1>2. CASE RestartRefused \/ ConnectionLost \/ Fault
    <2>1. Phase = "hook"
      BY <1>2 DEF RestartRefused, ConnectionLost, Fault, StepFails, SyncTLSFilesFails,
                  RestartFails, StopFails, FailsAt, PebbleSteps, Phase, AtRest,
                  NON_RECONCILABLE_EVENTS, UnitSafety, FileSafety, FileParts, HookEventInv
    <2>2. Abandon /\ UNCHANGED environment
      BY <1>2 DEF RestartRefused, ConnectionLost, Fault, StepFails, SyncTLSFilesFails,
                  RestartFails, StopFails
    <2> QED
      BY <2>1, <2>2, FailureSimulates
  <1> QED
    BY <1>1, <1>2, EmitSimulates DEF HookStep

LEMMA StutterSimulates == ASSUME UNCHANGED vars PROVE UNCHANGED U!vars
  BY DEF vars, U!vars, Input, Stale, Lost, Phase, AtRest, Seen, Files

\* Every behaviour of a worker is one of Unit: its files are a function of one snapshot.
THEOREM WorkerImplementsUnit == Spec => ImplementsUnit
  <1>1. UnitSafety /\ [Next]_vars => [U!Next]_(U!vars)
    <2> SUFFICES ASSUME UnitSafety, [Next]_vars PROVE [U!Next]_(U!vars)
      OBVIOUS
    <2> QED
      BY SurroundingsSimulate, DispatchSimulates, RetrySimulates, HookSimulates,
         StutterSimulates DEF Next
  <1> QED
    BY <1>1, InitSimulates, UnitIsSafe, PTL DEF Spec, ImplementsUnit, U!Spec
=============================================================================
