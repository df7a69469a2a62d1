------------------------- MODULE WorkerTracingProofs -------------------------
(***************************************************************************)
(* Theorems about WorkerTracing, for every choice of receivers and every   *)
(* set of faults, on top of those about Worker.                            *)
(***************************************************************************)
EXTENDS WorkerTracing, WorkerUnitProofs

LEMMA TracingStep == [TracingNext]_tracingVars => [Next]_vars
  <1> SUFFICES ASSUME [TracingNext]_tracingVars PROVE [Next]_vars
    OBVIOUS
  <1>1. CASE PodDies
    BY <1>1 DEF PodDies, Next, Surroundings
  <1>2. CASE TracedReconcile \/ TracedSync \/ OtherHookSteps
    BY <1>2 DEF TracedReconcile, TracedSync, OtherHookSteps, Next, HookStep
  <1>3. CASE Surroundings \/ Fault \/ Retry \/ \E event \in Events : Dispatch(event)
    BY <1>3 DEF Next
  <1>4. CASE UNCHANGED tracingVars
    BY <1>4 DEF tracingVars
  <1> QED
    BY <1>1, <1>2, <1>3, <1>4 DEF TracingNext

\* Charm tracing adds to the steps of Worker and takes none away: what is proved of
\* Worker, its promise to the cluster included, holds of a worker that is traced.
THEOREM TracingImplementsWorker == TracingSpec => Spec
  <1>1. TracingInit => Init
    BY DEF TracingInit
  <1> QED
    BY <1>1, TracingStep, PTL DEF TracingSpec, Spec

-----------------------------------------------------------------------------
LEMMA SurroundingsTraced ==
  ASSUME FileSafety, TracingInv, Surroundings, UNCHANGED <<rootCA, destination>>
  PROVE  TracingInv'
  <1> USE DEF TracingInv, StepsTraced, RefreshTraced, SentTo, Trusts, Refreshed, AtRest,
              Reconciled, HookReady, Configured, FileSafety, Typed, TypeOK, progress, environment
  <1>1. CASE Relate
    BY <1>1 DEF Relate
  <1>2. CASE Unrelate
    BY <1>2 DEF Unrelate
  <1>3. ASSUME NEW data \in Bags \cup {NoData}, CoordinatorWrites(data) PROVE TracingInv'
    BY <1>3 DEF CoordinatorWrites
  <1>4. ASSUME NEW R \in SUBSET Roles, ConfigureRoles(R) PROVE TracingInv'
    BY <1>4 DEF ConfigureRoles
  <1>5. CASE ChangeLeadership
    BY <1>5 DEF ChangeLeadership
  <1>6. CASE ContainerDies
    BY <1>6 DEF ContainerDies
  <1>7. CASE ContainerStarts
    BY <1>7 DEF ContainerStarts
  <1>8. ASSUME NEW s \in Services, ServiceExits(s) PROVE TracingInv'
    BY <1>8 DEF ServiceExits
  <1> QED
    BY <1>1, <1>2, <1>3, <1>4, <1>5, <1>6, <1>7, <1>8 DEF Surroundings

\* A hook starts: what it leaves alone is what it found, and an update-status with nothing
\* else queued found it at rest.
LEMMA StartTraced ==
  ASSUME FileSafety, TracingInv, UNCHANGED <<rootCA, destination>>,
         Retry \/ \E event \in Events : Dispatch(event)
  PROVE  TracingInv'
  <1> USE DEF TracingInv, SentTo, AtRest, Reconciled, HookReady, Configured,
              FileSafety, Typed, TypeOK, Enter, UpdateSteps
  <1>1. ASSUME NEW event \in Events, Dispatch(event) PROVE TracingInv'
    <2>1. StepsTraced'
      BY <1>1 DEF Dispatch, StepsTraced, NON_RECONCILABLE_EVENTS, QueuedEvents
    <2>2. CASE event = "update_status"
      <3>1. pending' = pending /\ pc = "idle" /\ pc' = "reconcile"
        BY <1>1, <2>2 DEF Dispatch, QueuedEvents, NON_RECONCILABLE_EVENTS
      <3>2. RefreshTraced'
        BY <1>1, <3>1 DEF Dispatch, StepsTraced, RefreshTraced, Refreshed
      <3> QED
        BY <2>1, <3>2
    <2>3. CASE event # "update_status"
      <3>1. hook'.event # "update_status"
        BY <1>1, <2>3 DEF Dispatch
      <3> QED
        BY <2>1, <3>1 DEF RefreshTraced, Refreshed
    <2> QED
      BY <2>2, <2>3
  <1>2. CASE Retry
    <2>1. hook.event \notin NON_RECONCILABLE_EVENTS
      BY <1>2 DEF Retry, FileParts, HookEventInv
    <2>2. pc' = "reconcile" /\ hook'.event = hook.event /\ UNCHANGED environment
      BY <1>2, <2>1 DEF Retry
    <2>3. StepsTraced' /\ RefreshTraced'
      BY <2>2 DEF StepsTraced, RefreshTraced, Refreshed, environment
    <2> QED
      BY <2>3
  <1> QED
    BY <1>1, <1>2

\* What the reconciler tells ops_tracing: a receiver of the databag that the hook has read,
\* and its CA if that is what is in the file.
LEMMA SetupTraces ==
  ASSUME SetupCharmTracing, IsReady
  PROVE  LET b == hook.view
         IN /\ Usable(b) => destination'.receiver = ReceiverOf[b]
            /\ rootCA = CaCert(b.tls) =>
                  /\ rootCA' = rootCA
                  /\ Usable(b) => destination' =
                        [receiver |-> ReceiverOf[b],
                         ca |-> IF ReceiverOf[b] = "https" THEN CaCert(b.tls) ELSE NoTLS]
  <1>1. hook.view \in Bags /\ ReceiverOf[hook.view] \in {"none", "http", "https"}
    BY TracingAssumption DEF IsReady
  <1>2. CASE ~Usable(hook.view)
    BY <1>2 DEF SetupCharmTracing, Traced
  <1>3. CASE Usable(hook.view) /\ ReceiverOf[hook.view] = "http"
    BY <1>3 DEF SetupCharmTracing, Traced
  <1>4. CASE Usable(hook.view) /\ ReceiverOf[hook.view] = "https"
    <2>1. destination' = [receiver |-> "https", ca |-> CaInPlace] /\ rootCA' = CaInPlace
      BY <1>4 DEF SetupCharmTracing, Traced
    <2>2. ASSUME rootCA = CaCert(hook.view.tls) PROVE CaInPlace = rootCA
      <3>1. hook.view.tls # NoTLS /\ hook.view.tls \in Bundles
        BY <1>1, <1>4 DEF Usable, Bundles
      <3>2. rootCA # NoTLS
        BY <2>2, <3>1, TracingAssumption DEF CaCert
      <3> QED
        BY <3>2 DEF CaInPlace
    <2> QED
      BY <1>4, <2>1, <2>2
  <1> QED
    BY <1>1, <1>2, <1>3, <1>4 DEF Usable

LEMMA ReconcileTraced ==
  ASSUME FileSafety, TracingInv, TracedReconcile PROVE TracingInv'
  <1>1. /\ SetupCharmTracing /\ pc = "reconcile" /\ hook' = hook /\ UNCHANGED environment
        /\ pc' = IF IsReady THEN "tls" ELSE "teardown"
    BY DEF TracedReconcile, Reconcile
  <1>2. CASE IsReady
    <2>1. pc' = "tls" /\ SentTo(hook.view)'
      BY <1>1, <1>2, SetupTraces DEF SentTo
    <2>2. StepsTraced'
      BY <1>1, <2>1 DEF StepsTraced, UpdateSteps, Reconciled, AtRest
    <2>3. RefreshTraced'
      <3> SUFFICES ASSUME pending = {}, up, Configured, hook.event = "update_status"
                   PROVE  rootCA' = CaCert(remote.tls) /\ Trusts(remote)'
        BY <1>1 DEF RefreshTraced, Refreshed, environment, Configured
      <3>1. rootCA = CaCert(remote.tls)
        BY DEF TracingInv, RefreshTraced
      <3>2. hook.view = remote /\ remote' = remote
        BY <1>1 DEF FileSafety, FileParts, FreshHook, Configured, environment
      <3> QED
        BY <1>1, <1>2, <3>1, <3>2, SetupTraces DEF Trusts
    <2> QED
      BY <2>2, <2>3 DEF TracingInv
  <1>3. CASE ~IsReady
    <2>1. pc' = "teardown" /\ UNCHANGED <<rootCA, destination>>
      BY <1>1, <1>3 DEF SetupCharmTracing, Traced
    <2>2. StepsTraced'
      BY <2>1 DEF StepsTraced, UpdateSteps, Reconciled, AtRest
    <2>3. RefreshTraced'
      BY <1>1, <2>1 DEF TracingInv, RefreshTraced, Refreshed, UpdateSteps, environment, Configured
    <2> QED
      BY <2>2, <2>3 DEF TracingInv
  <1> QED
    BY <1>2, <1>3

LEMMA SyncTraced ==
  ASSUME FileSafety, TracingInv, TracedSync PROVE TracingInv'
  <1>1. /\ rootCA' = CaCert(hook.view.tls) /\ hook' = hook /\ pc' \in {"trust", "config"}
        /\ pc = "tls" /\ UNCHANGED <<environment, destination>>
    BY DEF TracedSync, SyncTLSFiles, SavedCA
  <1>2. SentTo(hook.view)
    BY <1>1 DEF TracingInv, StepsTraced, UpdateSteps
  <1>3. SentTo(hook.view)' /\ rootCA' = CaCert(hook.view.tls)'
    BY <1>1, <1>2 DEF SentTo, CaCert
  <1>4. StepsTraced'
    BY <1>1, <1>3 DEF StepsTraced, UpdateSteps, Reconciled, AtRest
  <1>5. RefreshTraced'
    <2> SUFFICES ASSUME pending = {}, up, Configured, hook.event = "update_status"
                 PROVE  rootCA' = CaCert(remote.tls) /\ Trusts(remote)'
      BY <1>1 DEF RefreshTraced, Refreshed, environment, Configured
    <2>1. hook.view = remote
      BY <1>1 DEF FileSafety, FileParts, FreshHook, Configured
    <2>2. Trusts(remote)
      BY <1>1 DEF TracingInv, RefreshTraced, Refreshed, UpdateSteps
    <2> QED
      BY <1>1, <2>1, <2>2 DEF Trusts, environment
  <1> QED
    BY <1>4, <1>5 DEF TracingInv

\* A step that leaves tracing and the surroundings alone and does not go on to an update.
LEMMA StepKeepsRefresh ==
  ASSUME RefreshTraced, UNCHANGED <<environment, rootCA, destination>>,
         hook'.event = hook.event \/ hook'.event = "none",
         pc' \in UpdateSteps \cup {"emit"} => pc \in UpdateSteps
  PROVE  RefreshTraced'
  BY DEF RefreshTraced, Refreshed, Trusts, environment, Configured

\* The end of the other branch was for a worker that is not ready.
LEMMA OtherStepsTraced ==
  ASSUME FileSafety, TracingInv, OtherHookSteps PROVE TracingInv'
  <1>1. UNCHANGED <<rootCA, destination>>
    BY DEF OtherHookSteps
  <1>0. pc \notin {"idle", "emit"} => hook.event \notin NON_RECONCILABLE_EVENTS
    BY DEF FileSafety, FileParts, HookEventInv
  <1> USE <1>1, <1>0 DEF TracingInv, StepsTraced, SentTo, AtRest, Reconciled, HookReady,
                   Configured, UpdateSteps, environment, Abandon, Forget
  <1>2. CASE UpdateCACertificates \/ UpdateWorkerConfig \/ SetPebbleLayer
    <2>1. StepsTraced'
      BY <1>2 DEF UpdateCACertificates, UpdateWorkerConfig, SetPebbleLayer
    <2>2. RefreshTraced'
      BY <1>2, StepKeepsRefresh DEF UpdateCACertificates, UpdateWorkerConfig, SetPebbleLayer
    <2> QED
      BY <2>1, <2>2
  <1>3. CASE Restart \/ SkipRestart \/ RestartRefused
    <2>1. StepsTraced'
      BY <1>3 DEF Restart, SkipRestart, RestartRefused
    <2>2. RefreshTraced'
      BY <1>3, StepKeepsRefresh DEF Restart, SkipRestart, RestartRefused
    <2> QED
      BY <2>1, <2>2
  <1>4. CASE Teardown \/ WipeConfigs \/ Stop
    <2>1. pending = {} /\ up => ~HookReady
      BY <1>4 DEF Teardown, WipeConfigs, Stop, FileSafety, FileParts, BranchInv, TeardownSteps
    <2>2. /\ pc' \in {"wipe", "stop", "emit"} /\ pc \in {"teardown", "wipe", "stop"}
          /\ hook' = hook /\ UNCHANGED environment
      BY <1>4 DEF Teardown, WipeConfigs, Stop
    <2>3. StepsTraced'
      BY <2>1, <2>2
    <2>4. pending = {} /\ Configured => hook.view = remote /\ hook.roles = roles
      BY <2>2 DEF FileSafety, FileParts, FreshHook
    <2>5. RefreshTraced'
      BY <2>1, <2>2, <2>4 DEF RefreshTraced, Refreshed
    <2> QED
      BY <2>3, <2>5
  <1>6. CASE EmitClusterEvents
    <2>1. RefreshTraced'
      BY <1>6 DEF EmitClusterEvents, RefreshTraced, Refreshed
    <2>2. CASE hook.event \in NON_RECONCILABLE_EVENTS
      BY <1>6, <2>1, <2>2 DEF EmitClusterEvents, NON_RECONCILABLE_EVENTS
    <2>3. CASE hook.event \notin NON_RECONCILABLE_EVENTS
      BY <1>6, <2>1, <2>3 DEF EmitClusterEvents, FileSafety, FileParts, FreshHook
    <2> QED
      BY <2>2, <2>3
  <1>7. CASE ConnectionLost
    <2>1. StepsTraced'
      BY <1>7 DEF ConnectionLost
    <2>2. RefreshTraced'
      BY <1>7, StepKeepsRefresh DEF ConnectionLost
    <2> QED
      BY <2>1, <2>2
  <1> QED
    BY <1>2, <1>3, <1>4, <1>6, <1>7 DEF OtherHookSteps

LEMMA PodTraced == FileSafety /\ TracingInv /\ PodDies => TracingInv'
  BY DEF PodDies, ContainerDies, TracingInv, StepsTraced, RefreshTraced, Refreshed, AtRest,
         Reconciled, UpdateSteps, progress, vars

LEMMA FaultTraced ==
  FileSafety /\ TracingInv /\ Fault /\ UNCHANGED <<rootCA, destination>> => TracingInv'
  <1> SUFFICES ASSUME FileSafety, TracingInv, Fault, UNCHANGED <<rootCA, destination>>
               PROVE  TracingInv'
    OBVIOUS
  <1>1. pc' = "failed" /\ hook'.event = hook.event /\ UNCHANGED environment
    BY DEF Fault, StepFails, SyncTLSFilesFails, RestartFails, StopFails, Abandon, Forget
  <1>2. StepsTraced'
    BY <1>1 DEF StepsTraced, AtRest, Reconciled, UpdateSteps
  <1>3. RefreshTraced'
    BY <1>1, StepKeepsRefresh DEF TracingInv, UpdateSteps
  <1> QED
    BY <1>2, <1>3 DEF TracingInv

\* The inductive invariant of charm tracing: what each step of a hook has achieved.
THEOREM TracingIsSafe == TracingSpec => []TracingInv
  <1>1. TracingInit => TracingInv
    BY DEF TracingInit, Init, TracingInv, StepsTraced, RefreshTraced, Refreshed, UpdateSteps,
           Reconciled, Configured
  <1>2. FileSafety /\ TracingInv /\ [TracingNext]_tracingVars => TracingInv'
    <2> SUFFICES ASSUME FileSafety, TracingInv, [TracingNext]_tracingVars PROVE TracingInv'
      OBVIOUS
    <2>1. CASE PodDies
      BY <2>1, PodTraced
    <2>2. CASE TracedReconcile
      BY <2>2, ReconcileTraced
    <2>3. CASE TracedSync
      BY <2>3, SyncTraced
    <2>4. CASE OtherHookSteps
      BY <2>4, OtherStepsTraced
    <2>5. CASE Surroundings /\ UNCHANGED <<rootCA, destination>>
      BY <2>5, SurroundingsTraced
    <2>6. CASE Fault /\ UNCHANGED <<rootCA, destination>>
      BY <2>6, FaultTraced
    <2>7. CASE (Retry \/ \E event \in Events : Dispatch(event)) /\ UNCHANGED <<rootCA, destination>>
      BY <2>7, StartTraced
    <2>8. CASE UNCHANGED tracingVars
      BY <2>8 DEF tracingVars, vars, TracingInv, StepsTraced, RefreshTraced, SentTo, Trusts,
                  Refreshed, AtRest, Reconciled, HookReady, Configured
    <2> QED
      BY <2>1, <2>2, <2>3, <2>4, <2>5, <2>6, <2>7, <2>8 DEF TracingNext
  <1> QED
    BY <1>1, <1>2, TracingImplementsWorker, FilesAreSafe, PTL DEF TracingSpec

\* With any faults, and whichever of charm_tracing_config and _sync_tls_files wrote last: a
\* configured charm with nothing left to handle sends its traces to the receiver of its
\* databag and has the CA of that databag in its file.  What ops_tracing was told to trust
\* may still be the server certificate or the CA before, until the next update-status,
\* which always hands over the CA of the databag.
THEOREM TracesConverge == TracingSpec => []TracesFollow
  <1>1. TracingInv => TracesFollow
    BY DEF TracingInv, StepsTraced, RefreshTraced, TracesFollow, Quiet, AtRest
  <1> QED
    BY <1>1, TracingIsSafe, PTL

-----------------------------------------------------------------------------
\* With nothing to handle a hook finds what is in the databag, and the right CA in the file.
LEMMA SecuredStep ==
  ASSUME FileSafety, Secured, [TracingNext]_tracingVars, UNCHANGED environment
  PROVE  Secured'
  <1> USE DEF Secured
  <1>1. SUFFICES ASSUME rootCA' = rootCA, UNCHANGED destination \/ Trusts(remote)'
                 PROVE  Secured'
    <2>1. CASE PodDies
      BY <2>1 DEF PodDies, ContainerDies, environment
    <2>2. CASE TracedReconcile
      <3>1. SetupCharmTracing /\ pc = "reconcile"
        BY <2>2 DEF TracedReconcile, Reconcile
      <3>2. hook.view = remote
        BY <3>1 DEF FileSafety, FileParts, FreshHook, Configured
      <3>3. CASE IsReady
        <4>1. rootCA' = rootCA
          BY <3>1, <3>2, <3>3, SetupTraces
        <4>2. Trusts(remote)'
          BY <3>1, <3>2, <3>3, SetupTraces DEF Trusts, environment
        <4> QED
          BY <4>1, <4>2, <1>1
      <3>4. CASE ~IsReady
        BY <3>1, <3>4, <1>1 DEF SetupCharmTracing, Traced
      <3> QED
        BY <3>3, <3>4
    <2>3. CASE TracedSync
      <3>1. hook.view = remote /\ rootCA' = CaCert(hook.view.tls)
        BY <2>3 DEF TracedSync, SyncTLSFiles, SavedCA, FileSafety, FileParts, FreshHook, Configured
      <3> QED
        BY <2>3, <3>1, <1>1 DEF TracedSync
    <2>4. CASE ~PodDies /\ ~TracedReconcile /\ ~TracedSync
      <3>1. UNCHANGED <<rootCA, destination>>
        BY <2>4 DEF TracingNext, OtherHookSteps, tracingVars
      <3> QED
        BY <3>1, <1>1
    <2> QED
      BY <2>1, <2>2, <2>3, <2>4
  <1>2. Trusts(remote)'
    BY <1>1 DEF Trusts, environment
  <1> QED
    BY <1>1, <1>2 DEF environment, Configured

\* Once the CA of the databag is in its file and trusted it stays so, whatever hooks run and
\* fail, until the surroundings of the unit change: it is not exchanged for the certificate
\* that charm_tracing_config puts in its place.
THEOREM TrustIsKept == TracingSpec => TrustKept
  <1>1. FileSafety /\ [TracingNext]_tracingVars =>
            [Secured /\ UNCHANGED environment => Secured']_tracingVars
    BY SecuredStep
  <1> QED
    BY <1>1, TracingImplementsWorker, FilesAreSafe, PTL DEF TracingSpec, TrustKept
=============================================================================
