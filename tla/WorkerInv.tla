----------------------------- MODULE WorkerInv -----------------------------
(***************************************************************************)
(* Inductive strengthenings of the safety properties of Worker.  Each part *)
(* says what a hook has already achieved at each of its steps; TLC checks  *)
(* them on the instances of MCWorker and WorkerProofs proves them.         *)
(***************************************************************************)
EXTENDS Worker

\* The steps of the branch of _reconcile that updates the workload, and of the other.
UpdateSteps   == {"tls", "trust", "config", "layer", "restart"}
TeardownSteps == {"teardown", "wipe", "stop"}

\* Updates run only when is_ready found roles and a config in what the hook read.
UpdatesAreReady == pc \in UpdateSteps => hook.view \in Bags /\ hook.roles # {}

Typed == TypeOK /\ UpdatesAreReady

Clean == disk = EmptyDisk /\ \A s \in Services : service[s] = Down

\* Nothing survives the container, and only planned services run.
ContainerInv ==
    /\ ~up => Clean
    /\ \A s \in Services : service[s] # Down => s \in ServicesIn(plan)

\* Which events a hook at a given step can have.
HookEventInv ==
    /\ pc # "idle" /\ hook.event = "broken" => link = "dying"
    /\ pc \notin {"idle", "failed"} /\ hook.event = "broken" => hook.view = NoRelation
    /\ pc \notin {"idle", "emit"} => hook.event \notin NON_RECONCILABLE_EVENTS

\* With no event queued, a running hook has read what is there.
FreshHook ==
    pc \notin {"idle", "failed"} /\ pending = {} /\ link # "dying" =>
        /\ hook.roles = roles
        /\ hook.view = IF link = "none" THEN NoRelation ELSE remote

HookReady == hook.view \in Bags /\ hook.roles # {}

\* A hook has run the reconciler and is about to end.
Reconciled == pc = "emit" /\ hook.event \notin NON_RECONCILABLE_EVENTS

\* No hook runs, or one that Worker does not observe.
AtRest == pc = "idle" \/ (pc = "emit" /\ hook.event \in NON_RECONCILABLE_EVENTS)

\* A hook that finds the worker unconfigured leaves it clean, and it stays so.
TeardownInv ==
    /\ pc = "stop" => disk = EmptyDisk
    /\ Reconciled /\ ~HookReady => Clean
    /\ AtRest /\ pending = {} /\ link # "dying" /\ ~Configured => Clean

\* A container that was up when a hook looked and is still the same one, is torn down
\* only if the worker was not configured; a container that came since has an event queued.
BranchInv ==
    pc \in TeardownSteps /\ pending = {} /\ up => ~HookReady

\* How far the files are at each step, unless the container was replaced meanwhile.
FilesInv ==
    /\ pending = {} /\ up =>
          /\ pc \in {"trust", "config", "layer", "restart"} => disk.tls = hook.view.tls
          /\ pc \in {"layer", "restart"} => disk.config = hook.view.worker_config
          /\ Reconciled /\ HookReady =>
                disk = [config |-> hook.view.worker_config, tls |-> hook.view.tls]
    /\ AtRest /\ pending = {} /\ up /\ link # "dying" /\ Configured =>
          disk = [config |-> remote.worker_config, tls |-> remote.tls]

\* What FileSafety says besides types.
FileParts ==
    ContainerInv /\ HookEventInv /\ FreshHook /\ TeardownInv /\ BranchInv /\ FilesInv

FileSafety == Typed /\ FileParts

-----------------------------------------------------------------------------
\* The reconciler of the hook has published and labelled.
HasPublished == pc \in UpdateSteps \cup TeardownSteps \/ Reconciled

\* A leader that was elected since has an event queued.
Leads == leader /\ "leader_elected" \notin pending

\* What a hook drafts is what it read, and a hook that Worker does not observe drafts
\* nothing.  Writes of the roles that are denied are lost.
PublicationInv ==
    /\ pc = "emit" /\ ~Reconciled => draft = published
    /\ HasPublished /\ hook.view # NoRelation =>
          /\ draft.address
          /\ Leads /\ hook.roles # {} /\ "denied" \notin Faults => draft.roles = hook.roles
    /\ AtRest /\ pending = {} /\ link = "up" =>
          /\ published.address
          /\ leader /\ roles # {} /\ "denied" \notin Faults => published.roles = roles

\* Ports are opened on the branch that updates, which a container that was up and has
\* stayed is on if the hook is ready.
PortsInv ==
    /\ HookReady /\ hook.view.worker_ports # NoPorts
          /\ (pc \in UpdateSteps \/ (Reconciled /\ pending = {} /\ up)) =>
          draft.ports = hook.view.worker_ports
    /\ AtRest /\ pending = {} /\ up /\ Configured /\ remote.worker_ports # NoPorts =>
          published.ports = remote.worker_ports

\* Labels are patched at once, and stay when the hook fails later.
LabelsInv ==
    /\ HasPublished /\ Leads => labels = LabelsOf(hook.view)
    /\ AtRest /\ pending = {} /\ link # "dying" /\ leader =>
          labels = IF link = "up" /\ remote \in Bags THEN remote.worker_labels ELSE NoLabels

\* Only the hook of a breaking ends a relation, and hooks after it read none.
LogsInv ==
    /\ ~up \/ link = "none" => logs = {}
    /\ link = "none" /\ pc \notin {"idle", "failed"} => hook.view = NoRelation

RelationParts == PublicationInv /\ PortsInv /\ LabelsInv /\ LogsInv

\* What a unit writes for the coordinator, and what it does on its behalf outside of
\* the workload's files.
RelationSafety == FileSafety /\ RelationParts

\* Unless update-ca-certificates fails, it has seen every bundle that is whole.
TrustInv == pc # "trust" /\ disk.tls \notin {NoTLS, Torn} => trust = disk.tls

-----------------------------------------------------------------------------
\* The charm's layers all name the same services, which is the case of a charm that
\* tells one service its roles on the command line.
SameServices(L) ==
    \A R \in (SUBSET Roles) \ {{}}, b \in Bags : ServicesIn(LayerOf[R, b]) = L

\* What they name.
AllServices ==
    {s \in Services :
        \E R \in (SUBSET Roles) \ {{}}, b \in Bags : s \in ServicesIn(LayerOf[R, b])}

\* No coordinator has TLS files to provide.
NoTLSFiles == Bundles \subseteq {NoTLS}

\* Nothing fails between a change and its restart.  The layer callback may be called between
\* any two; update-ca-certificates and the push of the config come after a change only if
\* TLS files were written before.
NoMidwayFaults == "callback" \notin Faults /\ (NoTLSFiles \/ Faults \cap {"push", "exec"} = {})

\* What leads to the push of the config changes nothing then.
NothingBeforeConfig ==
    NoTLSFiles => /\ disk.tls = NoTLS /\ pc # "trust"
                  /\ pc \in {"reconcile", "tls", "config"} => ~changed

\* A service may be found down only if a restart can fail.
UpToDate(s) == service[s] = Current(s) \/ ("restart" \in Faults /\ service[s] = Down)

\* A service of the layer that is behind the files has a restart coming in this very
\* hook, or there is no config file, which the next update has to write.
RestartInv(L) ==
    /\ \A s \in L : UpToDate(s) \/ disk.config = NoConfig
                                \/ (pc \in UpdateSteps \ {"tls"} /\ changed)
    /\ pc = "restart" => disk.config = NoConfig \/ L \subseteq ServicesIn(plan)

\* No service of any layer is ever behind without a restart to come.
RestartSafety == RestartInv(AllServices)

-----------------------------------------------------------------------------
\* The layer of the charm for what there is now.
LayerNow == LayerOf[roles, remote]

\* The plan is a layer of the charm and nothing else, once one was added: no service of
\* another layer is left in it.
PlanInv(L) ==
    /\ ServicesIn(plan) \subseteq L
    /\ pending = {} /\ up /\ (pc = "restart" \/ (Reconciled /\ HookReady)) => plan = Layer
    /\ AtRest /\ pending = {} /\ up /\ link # "dying" /\ Configured =>
          plan = LayerNow

\* Files and plan are those of the databag and the roles, and the hook that runs, if any, has
\* found no change.  It does not get to a restart.
Calm ==
    /\ up /\ Configured /\ pending = {}
    /\ disk = [config |-> remote.worker_config, tls |-> remote.tls]
    /\ plan = LayerNow
    /\ pc \in {"idle", "failed", "reconcile", "tls", "config", "layer", "emit"}
    /\ pc \notin {"idle", "failed", "emit"} => ~changed
=============================================================================
