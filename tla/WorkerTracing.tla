---------------------------- MODULE WorkerTracing ----------------------------
(***************************************************************************)
(* The charm's own traces: where Worker tells ops_tracing to send them,    *)
(* and the CA file in the charm container that it trusts the receiver by.  *)
(*                                                                         *)
(* The steps are those of Worker, whose hook has two writers of that file. *)
(***************************************************************************)
EXTENDS WorkerUnit

\* For each databag the scheme of its otlp_http receiver, or "none".
CONSTANT ReceiverOf

ASSUME TracingAssumption ==
    /\ ReceiverOf \in [Bags -> {"none", "http", "https"}]
    /\ NoTLS \notin [file: {"ca_cert", "server_cert"}, of: Bundles]

VARIABLES
    rootCA,         \* ROOT_CA_CERT_PATH: a certificate of some bundle, or NoTLS
    destination     \* what ops_tracing has been told last: a receiver and what to trust

tracingVars == <<vars, rootCA, destination>>

Nowhere == [receiver |-> "none", ca |-> NoTLS]

CaCert(bundle) == IF bundle = NoTLS THEN NoTLS ELSE [file |-> "ca_cert", of |-> bundle]
ServerCert(bundle) == [file |-> "server_cert", of |-> bundle]

-----------------------------------------------------------------------------
TracingInit == Init /\ rootCA = NoTLS /\ destination = Nowhere

\* The CA file goes with the charm container; what ops_tracing was told is kept in the
\* charm's directory, and goes if the pod does.  A hook that runs is let to its end or fails
\* first.
PodDies ==
    /\ pc \in {"idle", "failed"}
    /\ ContainerDies \/ (~up /\ UNCHANGED vars)
    /\ rootCA' = NoTLS
    /\ destination' \in {destination, Nowhere}

\* charm_tracing_config: without a certificate an https receiver is not used.
Usable(b) == ReceiverOf[b] # "none" /\ (ReceiverOf[b] = "https" => b.tls # NoTLS)

Traced == IsReady /\ Usable(hook.view)

\* charm_tracing_config puts the server certificate where there is no file.
CaInPlace == IF rootCA = NoTLS THEN ServerCert(hook.view.tls) ELSE rootCA

\* _setup_charm_tracing, which comes before the files are written.  A destination that is
\* no longer called for is left as it is.
SetupCharmTracing ==
    \/ ~Traced /\ UNCHANGED <<rootCA, destination>>
    \/ /\ Traced /\ ReceiverOf[hook.view] = "http"
       /\ destination' = [receiver |-> "http", ca |-> NoTLS]
       /\ UNCHANGED rootCA
    \/ /\ Traced /\ ReceiverOf[hook.view] = "https"
       /\ destination' = [receiver |-> "https", ca |-> CaInPlace]
       /\ rootCA' = CaInPlace

TracedReconcile == Reconcile /\ SetupCharmTracing

\* Mutants: the CA is saved where there is no file yet; the file goes when nothing changed.
SavedCA_missing == IF rootCA = NoTLS THEN CaCert(hook.view.tls) ELSE rootCA
SavedCA_changed == IF disk.tls # hook.view.tls THEN CaCert(hook.view.tls) ELSE NoTLS

\* "We do it unconditionally to avoid the extra complexity."
SavedCA == CaCert(hook.view.tls)

TracedSync == SyncTLSFiles /\ rootCA' = SavedCA /\ UNCHANGED destination

\* The other steps of a hook, and a push that fails before the CA is saved.
OtherHookSteps ==
    /\ \/ UpdateCACertificates \/ UpdateWorkerConfig \/ SetPebbleLayer
       \/ Restart \/ SkipRestart \/ RestartRefused
       \/ Teardown \/ WipeConfigs \/ Stop
       \/ EmitClusterEvents
       \/ ConnectionLost
    /\ UNCHANGED <<rootCA, destination>>

TracingNext ==
    \/ PodDies
    \/ TracedReconcile
    \/ TracedSync
    \/ OtherHookSteps
    \/ (Surroundings \/ Fault \/ Retry \/ \E event \in Events : Dispatch(event))
         /\ UNCHANGED <<rootCA, destination>>

TracingSpec == TracingInit /\ [][TracingNext]_tracingVars

-----------------------------------------------------------------------------
\* The traces go to the receiver of databag b, if it has one that can be used.
SentTo(b) == Usable(b) => destination.receiver = ReceiverOf[b]

\* They go there with the CA of that databag, and no other certificate, to trust it by.
Trusts(b) ==
    Usable(b) =>
        destination = [receiver |-> ReceiverOf[b],
                       ca |-> IF ReceiverOf[b] = "https" THEN CaCert(b.tls) ELSE NoTLS]

\* From _setup_charm_tracing on, an update-status hook of a unit that has nothing else to
\* handle has configured tracing.
Refreshed ==
    /\ pc \in UpdateSteps \cup {"emit"} /\ hook.event = "update_status"
    /\ pending = {} /\ up /\ Configured

\* _setup_charm_tracing runs before _sync_tls_files saves the CA, and may hand out what it
\* put in its place ("this could race with _update_tls_certificates").  Once events are
\* handled the traces go to the receiver of the databag as it is now and the file holds its
\* CA.  What ops_tracing was told to trust may then still be the server certificate or the CA
\* before, but it is no more than a hook late: the update-status that follows tells it that
\* CA, whatever failed, was torn or went with the pod before.
TracesFollow ==
    /\ Quiet /\ up /\ Configured => SentTo(remote) /\ rootCA = CaCert(remote.tls)
    /\ Refreshed => Trusts(remote)

\* Nothing is left to handle, and the CA of the databag is in its file and is trusted.
Secured ==
    pending = {} /\ up /\ Configured /\ rootCA = CaCert(remote.tls) /\ Trusts(remote)

\* Until something around the unit changes, no hook, finished, failed or retried, exchanges
\* that CA for what charm_tracing_config puts in its place or for none: trust that was
\* reached is not lost from one hook to the next.
TrustKept == [][Secured /\ UNCHANGED environment => Secured']_tracingVars

\* What each step of a hook has achieved of that.
StepsTraced ==
    /\ pc \in UpdateSteps => SentTo(hook.view)
    /\ pc \in UpdateSteps \ {"tls"} => rootCA = CaCert(hook.view.tls)
    /\ pending = {} /\ up /\ Reconciled /\ HookReady =>
          rootCA = CaCert(hook.view.tls) /\ SentTo(hook.view)
    /\ pending = {} /\ up /\ AtRest /\ Configured =>
          rootCA = CaCert(remote.tls) /\ SentTo(remote)

\* The file is right when all is handled, so that an update-status, which brings no news,
\* finds it so and hands it on.
RefreshTraced ==
    /\ pending = {} /\ up /\ Configured /\ hook.event = "update_status" =>
          rootCA = CaCert(remote.tls)
    /\ Refreshed => Trusts(remote)

TracingInv == StepsTraced /\ RefreshTraced
=============================================================================
