-------------------------- MODULE CoordinatorProofs --------------------------
(***************************************************************************)
(* Theorems about Coordinator, for every set of peers, applications,       *)
(* units, roles and meta roles, and every behaviour of the surroundings.   *)
(***************************************************************************)
EXTENDS CoordinatorInv, TLAPS

-----------------------------------------------------------------------------
(* Types. *)

\* What a peer finds is a view.
LEMMA NowTyped ==
  ASSUME TypeOK, NEW c \in Peers
  PROVE  Now(c) \in Views
  BY DEF TypeOK, Now, Views

\* What the coordinator computes from a view.
LEMMA GatheredTyped ==
  ASSUME NEW v \in Views
  PROVE  /\ GatherAddressesByRole(v) \in ByRole
         /\ Sans(v) \in SUBSET Units
         /\ GatherTopology(v) \in SUBSET Apps
  <1>1. \A a \in Related(v) : a \in Apps /\ v.cluster[a] \in ClusterData
    BY DEF Related, Views
  <1>2. \A a \in Related(v) : v.cluster[a].published \subseteq Units
    BY <1>1 DEF ClusterData
  <1>3. GatherAddressesByRole(v) \in ByRole
    BY <1>2 DEF GatherAddressesByRole, ByRole
  <1>4. Sans(v) \in SUBSET Units
    BY <1>3 DEF Sans, GatherAddresses, ByRole
  <1>5. GatherTopology(v) \in SUBSET Apps
    BY <1>1 DEF GatherTopology
  <1> QED
    BY <1>3, <1>4, <1>5

\* The request of a certificate in use names the workers of the view.
LEMMA TLSNames ==
  ASSUME NEW c, NEW v
  PROVE  TLS(c, v) = NoTLS \/ TLS(c, v) = [key |-> c, sans |-> Sans(v)]
  <1>1. v.request = {Sans(v)} => UNION v.request = Sans(v)
    OBVIOUS
  <1> QED
    BY <1>1 DEF TLS

LEMMA TLSTyped ==
  ASSUME NEW c \in Peers, NEW v \in Views
  PROVE  TLS(c, v) \in Certificates \cup {NoTLS}
  BY GatheredTyped, TLSNames DEF Certificates

LEMMA ConfigTyped ==
  ASSUME NEW c \in Peers, NEW v \in Views
  PROVE  NginxConfig(c, v) \in [upstreams: ByRole, tls: Certificates \cup {NoTLS}]
  BY GatheredTyped, TLSTyped DEF NginxConfig

LEMMA PublicationTyped ==
  ASSUME NEW c \in Peers, NEW v \in Views, NEW a \in Related(v)
  PROVE  Publication(c, v, a) \in Publications
  <1>1. v.cluster[a] \in ClusterData
    BY DEF Related, Views
  <1>2. v.cluster[a].roles \in SUBSET Roles /\ v.mesh \in BOOLEAN /\ v.s3 \in S3Infos
    BY <1>1 DEF ClusterData, Views
  <1>3. [addresses |-> GatherAddressesByRole(v), s3 |-> v.s3] \in [addresses: ByRole, s3: S3Infos]
    BY <1>2, GatheredTyped
  <1> QED
    BY <1>2, <1>3, TLSTyped DEF Publication, Publications

LEMMA InitTyped == Init => Typed
  <1> SUFFICES ASSUME Init PROVE Typed
    OBVIOUS
  <1>1. {authority, mesh} \subseteq BOOLEAN
    BY CoordinatorAssumption DEF Init
  <1>2. /\ pending \in [Peers -> SUBSET QueuedEvents]
        /\ request \in [Peers -> SUBSET SUBSET Units]
        /\ rules \in [Peers -> SUBSET Apps]
    BY DEF Init
  <1> QED
    BY <1>1, <1>2 DEF Init, Typed, TypeOK, Running

LEMMA ClusterChangeTyped ==
  ASSUME Typed, NEW a \in Apps, NEW data \in ClusterData \cup {NoRelation},
         ClusterChanges(a, data), databag' \in [Apps -> Publications \cup {NoData}]
  PROVE  Typed'
  <1>1. cluster' \in [Apps -> ClusterData \cup {NoRelation}]
    BY DEF ClusterChanges, Typed, TypeOK
  <1>2. pending' \in [Peers -> SUBSET QueuedEvents]
    BY DEF ClusterChanges, NotifyAll, Typed, TypeOK, QueuedEvents
  <1> QED
    BY <1>1, <1>2 DEF ClusterChanges, Typed, TypeOK, Running, progress, certificates

LEMMA SurroundingsTyped == Typed /\ SurroundingsChange => Typed'
  <1> SUFFICES ASSUME Typed, SurroundingsChange PROVE Typed'
    OBVIOUS
  <1>1. ASSUME NEW a \in Apps, Relate(a) PROVE Typed'
    <2>1. [roles |-> {}, joined |-> {}, published |-> {}] \in ClusterData
      BY DEF ClusterData
    <2> QED
      BY <1>1, <2>1, ClusterChangeTyped DEF Relate, Typed, TypeOK
  <1>2. ASSUME NEW a \in Apps, RemoveRelation(a) PROVE Typed'
    BY <1>2, ClusterChangeTyped DEF RemoveRelation, Typed, TypeOK
  <1>3. ASSUME NEW u \in Units, UnitJoins(u) PROVE Typed'
    <2> DEFINE a == AppOf[u]
    <2>1. a \in Apps
      BY CoordinatorAssumption
    <2>2. [cluster[a] EXCEPT !.joined = @ \cup {u}] \in ClusterData
      BY <1>3, <2>1 DEF UnitJoins, Typed, TypeOK, ClusterData
    <2> QED
      BY <1>3, <2>1, <2>2, ClusterChangeTyped DEF UnitJoins, Typed, TypeOK
  <1>4. ASSUME NEW u \in Units, NEW R \in SUBSET Roles, UnitPublishes(u, R) PROVE Typed'
    <2> DEFINE a == AppOf[u]
    <2>1. a \in Apps /\ R \in SUBSET Roles
      BY CoordinatorAssumption
    <2>2. [cluster[a] EXCEPT !.published = @ \cup {u}, !.roles = R] \in ClusterData
      <3>1. cluster[a] \in ClusterData
        BY <1>4, <2>1 DEF UnitPublishes, Typed, TypeOK
      <3>2. cluster[a].published \cup {u} \in SUBSET Units
        BY <3>1 DEF ClusterData
      <3> QED
        BY <2>1, <3>1, <3>2 DEF ClusterData
    <2> QED
      BY <1>4, <2>1, <2>2, ClusterChangeTyped DEF UnitPublishes, Typed, TypeOK
  <1>5. ASSUME NEW u \in Units, UnitDeparts(u) PROVE Typed'
    <2> DEFINE a == AppOf[u]
    <2>1. a \in Apps
      BY CoordinatorAssumption
    <2>2. [cluster[a] EXCEPT !.joined = @ \ {u}, !.published = @ \ {u}] \in ClusterData
      <3>1. cluster[a] \in ClusterData
        BY <1>5, <2>1 DEF UnitDeparts, Typed, TypeOK
      <3>2. cluster[a].joined \ {u} \in SUBSET Units /\ cluster[a].published \ {u} \in SUBSET Units
        BY <3>1 DEF ClusterData
      <3> QED
        BY <3>1, <3>2 DEF ClusterData
    <2> QED
      BY <1>5, <2>1, <2>2, ClusterChangeTyped DEF UnitDeparts, Typed, TypeOK
  <1>6. CASE S3Changes
    BY <1>6 DEF S3Changes, NotifyAll, Typed, TypeOK, Running, QueuedEvents,
                certificates, progress, results
  <1>7. CASE AuthorityChanges
    BY <1>7, CoordinatorAssumption
       DEF AuthorityChanges, NotifyAll, Typed, TypeOK, Running, QueuedEvents, progress, results
  <1>8. CASE MeshChanges
    BY <1>8, CoordinatorAssumption
       DEF MeshChanges, NotifyAll, Typed, TypeOK, Running, QueuedEvents,
           certificates, progress, results
  <1>9. ASSUME NEW c \in Peers, ElectLeader(c) PROVE Typed'
    BY <1>9 DEF ElectLeader, Notify, Typed, TypeOK, Running, QueuedEvents,
                 certificates, progress, results
  <1>10. ASSUME NEW c \in Peers, NginxRestarts(c) PROVE Typed'
    BY <1>10 DEF NginxRestarts, Notify, Typed, TypeOK, Running, QueuedEvents,
                 surroundings, certificates, progress
  <1>11. CASE OtherRelationChanges
    BY <1>11 DEF OtherRelationChanges, NotifyAll, Typed, TypeOK, Running, QueuedEvents,
                 surroundings, certificates, progress, results
  <1> QED
    BY <1>1, <1>2, <1>3, <1>4, <1>5, <1>6, <1>7, <1>8, <1>9, <1>10, <1>11
       DEF SurroundingsChange

\* Where a hook starts or ends, its variables keep their types.
LEMMA EnterTyped ==
  ASSUME Typed, NEW c \in Peers, NEW step \in {"idle", "failed"},
         Enter(c) \/ End(c, step)
  PROVE  /\ pc' \in [Peers -> {"idle", "reconcile", "policies", "commit", "failed"}]
         /\ view' \in [Peers -> Views \cup {NoView}]
         /\ publishing' \in [Peers -> BOOLEAN]
         /\ \A d \in Peers : Running(d)' => view'[d] \in Views
  <1> USE DEF Typed, TypeOK, Running
  <1>1. CASE CanHandleEvents(Now(c)) /\ Enter(c)
    <2>1. Now(c) \in Views
      BY NowTyped
    <2> QED
      BY <1>1, <2>1 DEF Enter, Move
  <1>2. ASSUME NEW s \in {"idle", "failed"}, End(c, s)
        PROVE  /\ pc' \in [Peers -> {"idle", "reconcile", "policies", "commit", "failed"}]
               /\ view' \in [Peers -> Views \cup {NoView}]
               /\ publishing' \in [Peers -> BOOLEAN]
               /\ \A d \in Peers : Running(d)' => view'[d] \in Views
    BY <1>2 DEF End, Move
  <1> QED
    BY <1>1, <1>2 DEF Enter

LEMMA HookTyped ==
  ASSUME Typed, NEW c \in Peers,
         \/ Issue(c) \/ Retry(c) \/ HookStep(c) \/ KubernetesFails(c)
         \/ \E e \in Events : Dispatch(c, e)
  PROVE  Typed'
  <1>1. CASE Issue(c)
    BY <1>1 DEF Issue, Notify, Typed, TypeOK, Running, QueuedEvents, surroundings, progress, results
  <1>2. CASE Retry(c)
    BY <1>2, EnterTyped DEF Retry, Typed, TypeOK, surroundings, certificates, results
  <1>3. CASE KubernetesFails(c)
    BY <1>3, EnterTyped DEF KubernetesFails, Typed, TypeOK, surroundings, certificates, results
  <1>4. CASE CommitRefused(c)
    BY <1>4, EnterTyped DEF CommitRefused, Typed, TypeOK, surroundings, certificates, results
  <1>5. ASSUME NEW e \in Events, Dispatch(c, e) PROVE Typed'
    <2>1. pending' \in [Peers -> SUBSET QueuedEvents]
      BY <1>5 DEF Dispatch, Typed, TypeOK
    <2>2. CASE e \in NON_RECONCILABLE_EVENTS
      BY <1>5, <2>1, <2>2 DEF Dispatch, Typed, TypeOK, Running,
                              surroundings, certificates, progress, results
    <2>3. CASE e \notin NON_RECONCILABLE_EVENTS
      BY <1>5, <2>1, <2>3, EnterTyped DEF Dispatch, Typed, TypeOK,
                                          surroundings, certificates, results
    <2> QED
      BY <2>2, <2>3
  <1>6. CASE Reconcile(c)
    <2>1. view[c] \in Views
      BY <1>6 DEF Reconcile, Typed, Running
    <2>2. nginx' \in [Peers -> [upstreams: ByRole, tls: Certificates \cup {NoTLS}] \cup {NoNginx}]
      BY <1>6, <2>1, ConfigTyped DEF Reconcile, Typed, TypeOK
    <2> QED
      BY <1>6, <2>1, <2>2 DEF Reconcile, Move, Typed, TypeOK, Running, surroundings, certificates
  <1>7. CASE ReconcilePolicies(c)
    <2>1. view[c] \in Views
      BY <1>7 DEF ReconcilePolicies, Typed, Running
    <2>2. policies' \in SUBSET (Apps \cup {"coordinator"}) /\ rules' \in [Peers -> SUBSET Apps]
      BY <1>7, <2>1, GatheredTyped DEF ReconcilePolicies, MeshPolicies, Typed, TypeOK
    <2> QED
      BY <1>7, <2>1, <2>2 DEF ReconcilePolicies, Move, Typed, TypeOK, Running,
                              surroundings, certificates
  <1>8. CASE Commit(c)
    <2>1. view[c] \in Views
      BY <1>8 DEF Commit, Typed, Running
    <2>2. databag' \in [Apps -> Publications \cup {NoData}]
      BY <1>8, <2>1, PublicationTyped DEF Commit, Writes, RemoteDataReady, Typed, TypeOK
    <2>3. request' \in [Peers -> SUBSET SUBSET Units] /\ issued' \in [Peers -> BOOLEAN]
      <3>1. Request(c, view[c]) \in SUBSET SUBSET Units
        BY <2>1, GatheredTyped DEF Request
      <3> QED
        BY <1>8, <3>1 DEF Commit, Typed, TypeOK
    <2> QED
      BY <1>8, <2>2, <2>3, EnterTyped DEF Commit, Typed, TypeOK, surroundings
  <1> QED
    BY <1>1, <1>2, <1>3, <1>4, <1>5, <1>6, <1>7, <1>8 DEF HookStep

LEMMA NextTyped == Typed /\ [Next]_vars => Typed'
  <1> SUFFICES ASSUME Typed, [Next]_vars PROVE Typed'
    OBVIOUS
  <1>1. CASE Next
    BY <1>1, SurroundingsTyped, HookTyped DEF Next
  <1>2. CASE UNCHANGED vars
    BY <1>2 DEF vars, Typed, TypeOK, Running
  <1> QED
    BY <1>1, <1>2

\* Every variable of the coordinators keeps its type.
THEOREM CoordinatorTypeCorrect == Spec => []TypeOK
  <1>1. Typed => TypeOK
    BY DEF Typed
  <1> QED
    BY <1>1, InitTyped, NextTyped, PTL DEF Spec

-----------------------------------------------------------------------------
(* Safety. *)

LEMMA InitSafe == Init => CoordinatorSafety
  <1> SUFFICES ASSUME Init PROVE CoordinatorSafety
    OBVIOUS
  <1>1. CertificateNamesWorkers
    BY DEF Init, CertificateNamesWorkers
  <1>2. ASSUME NEW c \in Peers PROVE PeerInv(c)
    <2>1. ~CanHandleEvents(Now(c))
      BY DEF Init, CanHandleEvents, Now, Related
    <2> QED
      BY <2>1 DEF Init, PeerInv, ViewIsFresh, LeaderPublishes, NginxFollows, PublicationHolds,
                  Running
  <1> QED
    BY <1>1, <1>2, InitTyped DEF CoordinatorSafety

\* A peer with an event queued has nothing to show.
LEMMA QueuedIsSafe ==
  ASSUME NEW c \in Peers, pending'[c] # {}
  PROVE  PeerInv(c)'
  BY DEF PeerInv, ViewIsFresh, LeaderPublishes, NginxFollows, PublicationHolds, Quiet

\* A peer that is not touched, and does not become the leader.
Untouched(c) ==
    /\ Now(c)' = Now(c)
    /\ pending'[c] = pending[c]
    /\ pc'[c] = pc[c]
    /\ view'[c] = view[c]
    /\ publishing'[c] = publishing[c]
    /\ nginx'[c] = nginx[c]
    /\ leader' = c => leader = c /\ databag' = databag

LEMMA UntouchedIsSafe ==
  ASSUME NEW c \in Peers, PeerInv(c), Untouched(c)
  PROVE  PeerInv(c)'
  <1> USE DEF PeerInv, Untouched
  <1>1. ViewIsFresh(c)' /\ LeaderPublishes(c)'
    BY DEF ViewIsFresh, LeaderPublishes, Running
  <1>2. NginxFollows(c)'
    BY DEF NginxFollows, Quiet
  <1>3. PublicationHolds(c)'
    BY DEF PublicationHolds, Quiet
  <1> QED
    BY <1>1, <1>2, <1>3

\* A peer that the surroundings tell nothing is not touched by what they change.
LEMMA UntouchedBySurroundings ==
  ASSUME Typed, SurroundingsChange, NEW c \in Peers, pending'[c] = {}
  PROVE  Untouched(c)
  <1>1. ~NotifyAll
    BY DEF NotifyAll
  <1>2. PICK d \in Peers : ElectLeader(d) \/ NginxRestarts(d)
    BY <1>1 DEF SurroundingsChange, Relate, RemoveRelation, UnitJoins, UnitPublishes,
                UnitDeparts, ClusterChanges, S3Changes, AuthorityChanges, MeshChanges,
                OtherRelationChanges
  <1>3. c # d
    <2>1. PICK kind : pending' = [pending EXCEPT ![d] = @ \cup {kind}]
      BY <1>2 DEF ElectLeader, NginxRestarts, Notify
    <2> QED
      BY <2>1 DEF Typed, TypeOK
  <1> QED
    BY <1>2, <1>3 DEF ElectLeader, NginxRestarts, Notify, Untouched, Now, surroundings,
                      certificates, progress, results, Typed, TypeOK

\* Nor is one that is told of something it does not observe.
LEMMA IgnoredIsUntouched ==
  ASSUME Typed, NEW c \in Peers, NEW e \in NON_RECONCILABLE_EVENTS, Dispatch(c, e)
  PROVE  Untouched(c)
  <1>1. e \notin pending[c]
    BY DEF NON_RECONCILABLE_EVENTS, QueuedEvents, Typed, TypeOK
  <1>2. pending' = pending
    BY <1>1 DEF Dispatch, Typed, TypeOK
  <1> QED
    BY <1>2 DEF Dispatch, Untouched, Now, surroundings, certificates, progress, results

\* Whatever the surroundings change, they tell the peers that read it.
LEMMA SurroundingsSafe ==
  ASSUME CoordinatorSafety, SurroundingsChange
  PROVE  CoordinatorSafety'
  <1>1. Typed'
    BY SurroundingsTyped DEF CoordinatorSafety
  <1>2. CertificateNamesWorkers'
    <2>1. \A a \in Apps : databag'[a] \in {databag[a], NoData}
      BY DEF SurroundingsChange, Relate, RemoveRelation, UnitJoins, UnitPublishes,
             UnitDeparts, S3Changes, AuthorityChanges, MeshChanges, OtherRelationChanges,
             ElectLeader, NginxRestarts, results, CoordinatorSafety, Typed, TypeOK
    <2>2. \A c \in Peers : nginx'[c] \in {nginx[c], NoNginx}
      BY DEF SurroundingsChange, Relate, RemoveRelation, UnitJoins, UnitPublishes,
             UnitDeparts, ClusterChanges, S3Changes, AuthorityChanges, MeshChanges,
             OtherRelationChanges, ElectLeader, NginxRestarts, results, CoordinatorSafety,
             Typed, TypeOK
    <2> QED
      BY <2>1, <2>2 DEF CertificateNamesWorkers, CoordinatorSafety
  <1>3. ASSUME NEW c \in Peers PROVE PeerInv(c)'
    <2>1. CASE pending'[c] # {}
      BY <2>1, QueuedIsSafe
    <2>2. CASE pending'[c] = {}
      BY <2>2, UntouchedBySurroundings, UntouchedIsSafe DEF CoordinatorSafety
    <2> QED
      BY <2>1, <2>2
  <1> QED
    BY <1>1, <1>2, <1>3 DEF CoordinatorSafety

\* A hook that starts reads what there is; one that cannot handle it is at once over.
LEMMA EnterIsSafe ==
  ASSUME Typed, NEW c \in Peers, Enter(c), UNCHANGED <<surroundings, certificates, results>>
  PROVE  PeerInv(c)'
  <1>1. Now(c)' = Now(c)
    BY DEF Now, surroundings, certificates
  <1>2. CASE CanHandleEvents(Now(c))
    <2>1. pc'[c] = "reconcile" /\ view'[c] = Now(c)
      BY <1>2 DEF Enter, Move, Typed, TypeOK
    <2> QED
      BY <1>1, <2>1 DEF PeerInv, ViewIsFresh, LeaderPublishes, NginxFollows, PublicationHolds,
                        Quiet, Running
  <1>3. CASE ~CanHandleEvents(Now(c))
    <2>1. pc'[c] = "idle"
      BY <1>3 DEF Enter, End, Move, Typed, TypeOK
    <2>2. ~CanHandleEvents(Now(c))'
      BY <1>1, <1>3
    <2> QED
      BY <2>1, <2>2 DEF PeerInv, ViewIsFresh, LeaderPublishes, NginxFollows, PublicationHolds,
                        Quiet, Running
  <1> QED
    BY <1>2, <1>3

\* A failed hook is neither running nor idle.
LEMMA FailedIsSafe ==
  ASSUME Typed, NEW c \in Peers, End(c, "failed")
  PROVE  PeerInv(c)'
  <1>1. pc'[c] = "failed"
    BY DEF End, Move, Typed, TypeOK
  <1> QED
    BY <1>1 DEF PeerInv, ViewIsFresh, LeaderPublishes, NginxFollows, PublicationHolds, Quiet,
                Running

\* Renewing a request changes no certificate in use: it was not the one to use.
LEMMA CommitKeepsTLS ==
  ASSUME Typed, NEW c \in Peers, Commit(c), view[c] = Now(c)
  PROVE  TLS(c, Now(c)') = TLS(c, Now(c))
  <1>1. /\ authority' = authority /\ cluster' = cluster
        /\ request'[c] = IF authority THEN {Sans(Now(c))} ELSE {}
        /\ issued'[c] = (issued[c] /\ request'[c] = request[c])
    BY DEF Commit, Request, Now, surroundings, Typed, TypeOK
  <1>2. Sans(Now(c)') = Sans(Now(c))
    BY <1>1 DEF Sans, GatherAddresses, GatherAddressesByRole, Related, Now
  <1> QED
    BY <1>1, <1>2 DEF TLS, Now

LEMMA CommitIsSafe ==
  ASSUME CoordinatorSafety, NEW c \in Peers, Commit(c)
  PROVE  PeerInv(c)'
  <1> USE DEF CoordinatorSafety
  <1>1. pc'[c] = "idle" /\ pending' = pending /\ nginx' = nginx /\ leader' = leader
    BY DEF Commit, End, Move, surroundings, Typed, TypeOK
  <1>2. SUFFICES ASSUME pending[c] = {} PROVE PeerInv(c)'
    BY <1>1, QueuedIsSafe
  <1>3. view[c] = Now(c) /\ nginx[c] = NginxConfig(c, view[c]) /\ pc[c] = "commit"
    BY <1>2 DEF Commit, PeerInv, ViewIsFresh, NginxFollows, Running
  <1>4. /\ GatherAddressesByRole(Now(c)') = GatherAddressesByRole(Now(c))
        /\ TLS(c, Now(c)') = TLS(c, Now(c))
        /\ Now(c)'.cluster = Now(c).cluster
        /\ Now(c)'.s3 = Now(c).s3
        /\ Now(c)'.mesh = Now(c).mesh
    BY <1>3, CommitKeepsTLS DEF Commit, Now, surroundings, GatherAddressesByRole, Related
  <1>5. ViewIsFresh(c)' /\ LeaderPublishes(c)'
    BY <1>1 DEF ViewIsFresh, LeaderPublishes, Running
  <1>6. NginxFollows(c)'
    BY <1>1, <1>3, <1>4 DEF NginxFollows, NginxConfig
  <1>7. PublicationHolds(c)'
    <2> SUFFICES ASSUME leader = c, NEW a \in Apps, RemoteDataReady(Now(c)', a)
                 PROVE  databag'[a] = Publication(c, Now(c)', a)
      BY <1>1 DEF PublicationHolds
    <2>1. RemoteDataReady(view[c], a) /\ cluster[a] # NoRelation
      BY <1>3, <1>4 DEF RemoteDataReady, Related, Now
    <2>2. publishing[c]
      BY <1>2, <1>3 DEF PeerInv, LeaderPublishes
    <2>3. databag'[a] = Publication(c, view[c], a)
      BY <2>1, <2>2 DEF Commit, Writes
    <2> QED
      BY <1>3, <1>4, <2>3 DEF Publication
  <1> QED
    BY <1>5, <1>6, <1>7 DEF PeerInv

\* A step of a peer leaves the others alone: only the leader publishes.
LEMMA HookLeavesOthers ==
  ASSUME CoordinatorSafety, NEW c \in Peers, NEW d \in Peers, c # d,
         \/ Issue(c) \/ Retry(c) \/ HookStep(c) \/ KubernetesFails(c)
         \/ \E e \in Events : Dispatch(c, e)
  PROVE  Untouched(d)
  <1> USE DEF Untouched, Now, CoordinatorSafety, Typed, TypeOK, surroundings, certificates,
              progress, results, Move, End
  <1>1. CASE Issue(c)
    BY <1>1 DEF Issue, Notify
  <1>2. CASE Retry(c)
    BY <1>2 DEF Retry, Enter
  <1>3. CASE KubernetesFails(c) \/ CommitRefused(c)
    BY <1>3 DEF KubernetesFails, CommitRefused
  <1>4. CASE \E e \in Events : Dispatch(c, e)
    BY <1>4 DEF Dispatch, Enter
  <1>5. CASE Reconcile(c) \/ ReconcilePolicies(c)
    BY <1>5 DEF Reconcile, ReconcilePolicies
  <1>6. CASE Commit(c)
    <2>1. leader' = d => databag' = databag
      BY <1>6 DEF Commit, Writes
    <2> QED
      BY <1>6, <2>1 DEF Commit
  <1> QED
    BY <1>1, <1>2, <1>3, <1>4, <1>5, <1>6 DEF HookStep

\* The certificate of a publication, and of an nginx config, answers the request for the names
\* of the view they are made of: none is used that was issued for another.
LEMMA PublicationNamesWorkers ==
  ASSUME NEW c, NEW v, NEW a, NEW r \in Roles
  PROVE  /\ Publication(c, v, a).tls # NoTLS =>
               Publication(c, v, a).worker_config.addresses[r]
                   \subseteq Publication(c, v, a).tls.sans
         /\ NginxConfig(c, v).tls # NoTLS =>
               NginxConfig(c, v).upstreams[r] \subseteq NginxConfig(c, v).tls.sans
  <1>1. GatherAddressesByRole(v)[r] \subseteq Sans(v)
    BY DEF Sans, GatherAddresses
  <1>2. TLS(c, v) # NoTLS => TLS(c, v).sans = Sans(v)
    BY TLSNames
  <1> QED
    BY <1>1, <1>2 DEF Publication, NginxConfig

LEMMA HookKeepsCertificates ==
  ASSUME CoordinatorSafety, NEW c \in Peers,
         \/ Issue(c) \/ Retry(c) \/ HookStep(c) \/ KubernetesFails(c)
         \/ \E e \in Events : Dispatch(c, e)
  PROVE  CertificateNamesWorkers'
  <1> USE DEF CoordinatorSafety, CertificateNamesWorkers
  <1>1. CASE Commit(c)
    <2>1. nginx' = nginx /\ \A a \in Apps : databag'[a] \in {databag[a], Publication(c, view[c], a)}
      BY <1>1 DEF Commit
    <2> QED
      BY <2>1, PublicationNamesWorkers
  <1>2. CASE Reconcile(c)
    <2>1. databag' = databag /\ \A d \in Peers : nginx'[d] \in {nginx[d], NginxConfig(c, view[c])}
      BY <1>2 DEF Reconcile, Typed, TypeOK
    <2> QED
      BY <2>1, PublicationNamesWorkers
  <1>3. CASE ~Commit(c) /\ ~Reconcile(c)
    <2>1. databag' = databag /\ nginx' = nginx
      BY <1>3 DEF HookStep, Issue, Retry, KubernetesFails, CommitRefused, Dispatch,
                  ReconcilePolicies, results
    <2> QED
      BY <2>1
  <1> QED
    BY <1>1, <1>2, <1>3

LEMMA HookSafe ==
  ASSUME CoordinatorSafety, NEW c \in Peers,
         \/ Issue(c) \/ Retry(c) \/ HookStep(c) \/ KubernetesFails(c)
         \/ \E e \in Events : Dispatch(c, e)
  PROVE  CoordinatorSafety'
  <1>1. Typed'
    BY HookTyped DEF CoordinatorSafety
  <1>2. PeerInv(c)'
    <2> USE DEF CoordinatorSafety
    <2>1. CASE Issue(c)
      <3>1. pending'[c] # {}
        BY <2>1 DEF Issue, Notify, Typed, TypeOK
      <3> QED
        BY <3>1, QueuedIsSafe
    <2>2. CASE Retry(c)
      BY <2>2, EnterIsSafe DEF Retry
    <2>3. CASE KubernetesFails(c) \/ CommitRefused(c)
      BY <2>3, FailedIsSafe DEF KubernetesFails, CommitRefused
    <2>4. ASSUME NEW e \in Events, Dispatch(c, e) PROVE PeerInv(c)'
      <3>1. CASE e \in NON_RECONCILABLE_EVENTS
        BY <2>4, <3>1, IgnoredIsUntouched, UntouchedIsSafe
      <3>2. CASE e \notin NON_RECONCILABLE_EVENTS
        BY <2>4, <3>2, EnterIsSafe DEF Dispatch
      <3> QED
        BY <3>1, <3>2
    <2>5. CASE Reconcile(c)
      <3>1. /\ pc[c] = "reconcile" /\ pc'[c] = "policies"
            /\ pending' = pending /\ view' = view /\ Now(c)' = Now(c)
            /\ nginx'[c] = NginxConfig(c, view[c])
            /\ publishing'[c] = (leader = c) /\ leader' = leader
        BY <2>5 DEF Reconcile, Move, Now, surroundings, certificates, Typed, TypeOK
      <3> QED
        BY <3>1 DEF PeerInv, ViewIsFresh, LeaderPublishes, NginxFollows, PublicationHolds,
                    Quiet, Running
    <2>6. CASE ReconcilePolicies(c)
      <3>1. /\ pc[c] = "policies" /\ pc'[c] = "commit"
            /\ pending' = pending /\ view' = view /\ Now(c)' = Now(c)
            /\ nginx' = nginx /\ publishing' = publishing /\ leader' = leader
        BY <2>6 DEF ReconcilePolicies, Move, Now, surroundings, certificates, Typed, TypeOK
      <3> QED
        BY <3>1 DEF PeerInv, ViewIsFresh, LeaderPublishes, NginxFollows, PublicationHolds,
                    Quiet, Running
    <2>7. CASE Commit(c)
      BY <2>7, CommitIsSafe
    <2> QED
      BY <2>1, <2>2, <2>3, <2>4, <2>5, <2>6, <2>7 DEF HookStep
  <1>3. ASSUME NEW d \in Peers, c # d PROVE PeerInv(d)'
    BY <1>3, HookLeavesOthers, UntouchedIsSafe DEF CoordinatorSafety
  <1> QED
    BY <1>1, <1>2, <1>3, HookKeepsCertificates DEF CoordinatorSafety

LEMMA NextSafe == CoordinatorSafety /\ [Next]_vars => CoordinatorSafety'
  <1> SUFFICES ASSUME CoordinatorSafety, [Next]_vars PROVE CoordinatorSafety'
    OBVIOUS
  <1>1. CASE Next
    BY <1>1, SurroundingsSafe, HookSafe DEF Next
  <1>2. CASE UNCHANGED vars
    <2>1. Typed'
      BY <1>2, NextTyped DEF CoordinatorSafety
    <2>2. ASSUME NEW c \in Peers PROVE PeerInv(c)'
      BY <1>2, UntouchedIsSafe DEF vars, Untouched, Now, CoordinatorSafety
    <2> QED
      BY <1>2, <2>1, <2>2 DEF vars, CoordinatorSafety, CertificateNamesWorkers
  <1> QED
    BY <1>1, <1>2

\* The inductive invariant.
THEOREM CoordinatorIsSafe == Spec => []CoordinatorSafety
  BY InitSafe, NextSafe, PTL DEF Spec

\* However the hooks of the peers interleave, fail and are retried and whoever leads,
\* a leader with nothing left to handle has published the current config to every
\* worker app that is ready.
THEOREM PublicationsConverge == Spec => []PublishedIsCurrent
  <1>1. CoordinatorSafety => PublishedIsCurrent
    BY DEF CoordinatorSafety, Typed, TypeOK, PeerInv, PublicationHolds, PublishedIsCurrent
  <1> QED
    BY <1>1, CoordinatorIsSafe, PTL

\* The nginx of a peer with nothing left to handle is configured for what is there,
\* whatever happened to its container and its certificate.
THEOREM NginxConverges == Spec => []NginxIsCurrent
  <1>1. CoordinatorSafety => NginxIsCurrent
    BY DEF CoordinatorSafety, PeerInv, NginxFollows, NginxIsCurrent
  <1> QED
    BY <1>1, CoordinatorIsSafe, PTL

\* However requests are renewed, answered and withdrawn while workers come and go: the names
\* that the authority put into a certificate in use are those of the workers it is used for,
\* in the databags of the workers and in every nginx.
THEOREM CertificatesNameWorkers == Spec => []CertificateNamesWorkers
  <1>1. CoordinatorSafety => CertificateNamesWorkers
    BY DEF CoordinatorSafety
  <1> QED
    BY <1>1, CoordinatorIsSafe, PTL

-----------------------------------------------------------------------------
(* What all peers write. *)

\* The policies and the guards depend on what all peers see alike.
LEMMA SeenAlike ==
  ASSUME NEW c \in Peers, NEW d \in Peers
  PROVE  /\ CanHandleEvents(Now(c)) = CanHandleEvents(Now(d))
         /\ GatherTopology(Now(c)) = GatherTopology(Now(d))
         /\ MeshPolicies(Now(c)) = MeshPolicies(Now(d))
  BY DEF Now, CanHandleEvents, IsCoherent, GatherRoles, GatherTopology, MeshPolicies, Related

\* A peer that is not done, and one that cannot handle events, promise nothing.
LEMMA NotDoneIsSafe ==
  ASSUME Typed', NEW c \in Peers, ~Done(c)' \/ ~CanHandleEvents(Now(c))',
         \A d \in Peers : d # c => RulesFollow(d)'
  PROVE  PoliciesFollow' /\ \A d \in Peers : RulesFollow(d)'
  <1>1. leader' \in Peers
    BY DEF Typed, TypeOK
  <1>2. (\A d \in Peers : Done(d)') => ~CanHandleEvents(Now(leader))'
    <2> SUFFICES ASSUME ~CanHandleEvents(Now(c))' PROVE ~CanHandleEvents(Now(leader))'
      OBVIOUS
    <2>1. CanHandleEvents(Now(c))' = CanHandleEvents(Now(leader))'
      BY DEF Now, CanHandleEvents, IsCoherent, GatherRoles, Related
    <2> QED
      BY <2>1
  <1>3. PoliciesFollow'
    BY <1>2 DEF PoliciesFollow
  <1>4. RulesFollow(c)'
    BY DEF RulesFollow
  <1> QED
    BY <1>3, <1>4

LEMMA InitMeshSafe == Init => MeshSafety
  <1> SUFFICES ASSUME Init PROVE MeshSafety
    OBVIOUS
  <1>1. \A c : ~CanHandleEvents(Now(c))
    BY DEF Init, CanHandleEvents, Now, Related
  <1> QED
    BY <1>1, InitSafe DEF MeshSafety, PoliciesFollow, RulesFollow

\* A step that touches neither what is seen nor what is written to Kubernetes, and lets no
\* peer be done.
LEMMA UnseenIsSafe ==
  ASSUME MeshSafety, UNCHANGED <<cluster, s3, mesh, policies>>, leader' \in Peers,
         \A d \in Peers : Done(d)' => Done(d) /\ rules'[d] = rules[d]
  PROVE  PoliciesFollow' /\ \A d \in Peers : RulesFollow(d)'
  <1>1. ASSUME NEW c \in Peers, NEW d \in Peers
        PROVE  /\ CanHandleEvents(Now(c)') = CanHandleEvents(Now(d))
               /\ GatherTopology(Now(c)') = GatherTopology(Now(d))
               /\ MeshPolicies(Now(c)') = MeshPolicies(Now(d))
    BY DEF Now, CanHandleEvents, IsCoherent, GatherRoles, GatherTopology, MeshPolicies, Related
  <1>2. leader \in Peers
    BY DEF MeshSafety, CoordinatorSafety, Typed, TypeOK
  <1>3. PoliciesFollow'
    BY <1>1, <1>2 DEF MeshSafety, PoliciesFollow
  <1>4. ASSUME NEW d \in Peers PROVE RulesFollow(d)'
    BY <1>1 DEF MeshSafety, RulesFollow
  <1> QED
    BY <1>3, <1>4

LEMMA SurroundingsMeshSafe ==
  ASSUME MeshSafety, SurroundingsChange
  PROVE  MeshSafety'
  <1> USE DEF MeshSafety
  <1>1. CoordinatorSafety' /\ Typed' /\ leader' \in Peers
    BY SurroundingsSafe DEF CoordinatorSafety, Typed, TypeOK
  <1>2. CASE NotifyAll
    <2>1. \A c \in Peers : ~Done(c)'
      BY <1>2 DEF NotifyAll, Done
    <2> QED
      BY <1>1, <2>1 DEF PoliciesFollow, RulesFollow
  <1>3. ASSUME NEW d \in Peers, ElectLeader(d) \/ NginxRestarts(d) PROVE MeshSafety'
    <2>1. \A c \in Peers : pending'[c] = {} => pending[c] = {}
      BY <1>3 DEF ElectLeader, NginxRestarts, Notify, CoordinatorSafety, Typed, TypeOK
    <2>2. UNCHANGED <<cluster, s3, mesh, policies, rules, pc>>
      BY <1>3 DEF ElectLeader, NginxRestarts, surroundings, results, progress
    <2> QED
      BY <1>1, <2>1, <2>2, UnseenIsSafe DEF Done
  <1> QED
    BY <1>2, <1>3 DEF SurroundingsChange, Relate, RemoveRelation, UnitJoins,
                      UnitPublishes, UnitDeparts, ClusterChanges, S3Changes, AuthorityChanges,
                      MeshChanges, OtherRelationChanges

\* A hook that starts is not done, or cannot handle events.
LEMMA EnterIsNotDone ==
  ASSUME Typed, NEW c \in Peers, Enter(c), UNCHANGED <<surroundings, certificates>>
  PROVE  ~Done(c)' \/ ~CanHandleEvents(Now(c))'
  <1>1. Now(c)' = Now(c)
    BY DEF Now, surroundings, certificates
  <1>2. CASE CanHandleEvents(Now(c))
    <2>1. pc'[c] = "reconcile"
      BY <1>2 DEF Enter, Move, Typed, TypeOK
    <2> QED
      BY <2>1 DEF Done
  <1>3. CASE ~CanHandleEvents(Now(c))
    BY <1>1, <1>3
  <1> QED
    BY <1>2, <1>3

LEMMA EnterMeshSafe ==
  ASSUME MeshSafety, Typed', NEW c \in Peers, Enter(c),
         UNCHANGED <<surroundings, certificates, results>>,
         \A d \in Peers : d # c => pending'[d] = pending[d]
  PROVE  PoliciesFollow' /\ \A d \in Peers : RulesFollow(d)'
  <1> USE DEF MeshSafety, CoordinatorSafety
  <1>1. ~Done(c)' \/ ~CanHandleEvents(Now(c))'
    BY EnterIsNotDone
  <1>2. ASSUME NEW d \in Peers, d # c PROVE RulesFollow(d)'
    <2>1. pc'[d] = pc[d] /\ pending'[d] = pending[d]
      BY <1>2 DEF Enter, End, Move, Typed, TypeOK
    <2>2. Now(d)' = Now(d) /\ rules' = rules
      BY DEF Now, surroundings, certificates, results
    <2> QED
      BY <2>1, <2>2 DEF RulesFollow, Done
  <1> QED
    BY <1>1, <1>2, NotDoneIsSafe

\* Once the last peer is done it has seen, and written, what there is.
LEMMA PoliciesMeshSafe ==
  ASSUME MeshSafety, NEW c \in Peers, ReconcilePolicies(c)
  PROVE  PoliciesFollow' /\ \A d \in Peers : RulesFollow(d)'
  <1> USE DEF MeshSafety, CoordinatorSafety
  <1>1. /\ pc[c] = "policies" /\ pending' = pending /\ leader' = leader
        /\ policies' = MeshPolicies(view[c])
        /\ rules' = [rules EXCEPT ![c] = GatherTopology(view[c])]
        /\ \A d : Now(d)' = Now(d)
        /\ \A d \in Peers : d # c => pc'[d] = pc[d]
        /\ rules \in [Peers -> SUBSET Apps] /\ leader \in Peers
    BY DEF ReconcilePolicies, Move, Now, surroundings, certificates, Typed, TypeOK
  <1>2. pending[c] = {} => view[c] = Now(c)
    BY <1>1 DEF PeerInv, ViewIsFresh, Running
  <1>3. PoliciesFollow'
    <2> SUFFICES ASSUME pending[c] = {} PROVE policies' = MeshPolicies(Now(leader))
      BY <1>1 DEF PoliciesFollow, Done
    <2> QED
      BY <1>1, <1>2, SeenAlike
  <1>4. ASSUME NEW d \in Peers PROVE RulesFollow(d)'
    <2>1. CASE d = c
      BY <1>1, <1>2, <2>1 DEF RulesFollow, Done
    <2>2. CASE d # c
      BY <1>1, <2>2 DEF RulesFollow, Done
    <2> QED
      BY <2>1, <2>2
  <1> QED
    BY <1>3, <1>4

LEMMA HookMeshSafe ==
  ASSUME MeshSafety, NEW c \in Peers,
         \/ Issue(c) \/ Retry(c) \/ HookStep(c) \/ KubernetesFails(c)
         \/ \E e \in Events : Dispatch(c, e)
  PROVE  MeshSafety'
  <1> USE DEF MeshSafety
  <1>1. CoordinatorSafety' /\ Typed' /\ leader' \in Peers
    BY HookSafe DEF CoordinatorSafety, Typed, TypeOK
  <1>2. Typed
    BY DEF CoordinatorSafety
  <1>3. CASE Issue(c)
    <2>1. \A d \in Peers : pending'[d] = {} => pending[d] = {}
      BY <1>2, <1>3 DEF Issue, Notify, Typed, TypeOK
    <2>2. UNCHANGED <<cluster, s3, mesh, policies, rules, pc>>
      BY <1>3 DEF Issue, surroundings, results, progress
    <2> QED
      BY <1>1, <2>1, <2>2, UnseenIsSafe DEF Done
  <1>4. CASE Retry(c)
    BY <1>1, <1>4, EnterMeshSafe DEF Retry
  <1>5. ASSUME NEW e \in Events, Dispatch(c, e) PROVE MeshSafety'
    <2>1. CASE e \in NON_RECONCILABLE_EVENTS
      <3>1. e \notin pending[c]
        BY <1>2, <2>1 DEF NON_RECONCILABLE_EVENTS, QueuedEvents, Typed, TypeOK
      <3>2. pending' = pending
        BY <1>2, <1>5, <3>1 DEF Dispatch, Typed, TypeOK
      <3>3. UNCHANGED <<cluster, s3, mesh, policies, rules, pc>>
        BY <1>5, <2>1 DEF Dispatch, surroundings, results, progress
      <3> QED
        BY <1>1, <3>2, <3>3, UnseenIsSafe DEF Done
    <2>2. CASE e \notin NON_RECONCILABLE_EVENTS
      <3>1. \A d \in Peers : d # c => pending'[d] = pending[d]
        BY <1>2, <1>5 DEF Dispatch, Typed, TypeOK
      <3> QED
        BY <1>1, <1>5, <2>2, <3>1, EnterMeshSafe DEF Dispatch
    <2> QED
      BY <2>1, <2>2
  <1>6. CASE Reconcile(c) \/ CommitRefused(c) \/ KubernetesFails(c)
    <2>1. pc'[c] \in {"policies", "failed"} /\ \A d \in Peers : d # c => pc'[d] = pc[d]
      BY <1>2, <1>6 DEF Reconcile, CommitRefused, KubernetesFails, End, Move, Typed, TypeOK
    <2>2. UNCHANGED <<cluster, s3, mesh, policies, rules, pending>>
      BY <1>6 DEF Reconcile, CommitRefused, KubernetesFails, surroundings, results
    <2> QED
      BY <1>1, <2>1, <2>2, UnseenIsSafe DEF Done
  <1>7. CASE ReconcilePolicies(c)
    BY <1>1, <1>7, PoliciesMeshSafe
  <1>8. CASE Commit(c)
    <2>1. pc[c] = "commit" /\ \A d \in Peers : d # c => pc'[d] = pc[d]
      BY <1>2, <1>8 DEF Commit, End, Move, Typed, TypeOK
    <2>2. UNCHANGED <<cluster, s3, mesh, policies, rules, pending>>
      BY <1>8 DEF Commit, surroundings
    <2> QED
      BY <1>1, <2>1, <2>2, UnseenIsSafe DEF Done
  <1> QED
    BY <1>3, <1>4, <1>5, <1>6, <1>7, <1>8 DEF HookStep

\* Peers that are done leave the policies of the present.
THEOREM MeshIsSafe == Spec => []MeshSafety
  <1>1. MeshSafety /\ [Next]_vars => MeshSafety'
    <2> SUFFICES ASSUME MeshSafety, [Next]_vars PROVE MeshSafety'
      OBVIOUS
    <2>1. CASE Next
      BY <2>1, SurroundingsMeshSafe, HookMeshSafe DEF Next
    <2>2. CASE UNCHANGED vars
      <3>1. CoordinatorSafety' /\ leader' \in Peers
        BY <2>2, NextSafe DEF MeshSafety, CoordinatorSafety, Typed, TypeOK
      <3>2. UNCHANGED <<cluster, s3, mesh, policies, rules, pending, pc>>
        BY <2>2 DEF vars
      <3> QED
        BY <3>1, <3>2, UnseenIsSafe DEF MeshSafety, Done
    <2> QED
      BY <2>1, <2>2
  <1> QED
    BY <1>1, InitMeshSafe, PTL DEF Spec

\* Although every peer overwrites the mesh policies with what it saw at the start of its
\* hook, they are the right ones once all peers have nothing left to handle.
THEOREM PoliciesConverge == Spec => []PoliciesAreCurrent
  <1>1. MeshSafety => PoliciesAreCurrent
    <2> SUFFICES ASSUME MeshSafety, \A c \in Peers : Quiet(c), CanHandleEvents(Now(leader))
                 PROVE  /\ policies = IF mesh THEN GatherTopology(Now(leader)) \cup {"coordinator"}
                                              ELSE {}
                        /\ \A c \in Peers : rules[c] = GatherTopology(Now(leader))
      BY DEF PoliciesAreCurrent
    <2>1. leader \in Peers
      BY DEF MeshSafety, CoordinatorSafety, Typed, TypeOK
    <2>2. \A c \in Peers : Done(c)
      BY DEF Quiet, Done
    <2>3. policies = MeshPolicies(Now(leader))
      BY <2>2 DEF MeshSafety, PoliciesFollow
    <2>4. \A c \in Peers : rules[c] = GatherTopology(Now(leader))
      BY <2>1, <2>2, SeenAlike DEF MeshSafety, RulesFollow
    <2> QED
      BY <2>3, <2>4 DEF MeshPolicies, Now
  <1> QED
    BY <1>1, MeshIsSafe, PTL

-----------------------------------------------------------------------------
(* No publication without a change. *)

\* A commit from the present asks for the certificate the present calls for.
LEMMA CommittedRequest ==
  ASSUME Typed, NEW c \in Peers, Commit(c), view[c] = Now(c)
  PROVE  request'[c] = Request(c, Now(c)) /\ Request(c, Now(c)') = Request(c, Now(c))
  <1>1. cluster' = cluster /\ authority' = authority
    BY DEF Commit, surroundings
  <1>2. Sans(Now(c)') = Sans(Now(c))
    BY <1>1 DEF Sans, GatherAddresses, GatherAddressesByRole, Related, Now
  <1> QED
    BY <1>1, <1>2 DEF Commit, Request, Now, Typed, TypeOK

\* A quiet peer stays with the request it committed until it is told of something.
LEMMA NextRequestFollows ==
  ASSUME CoordinatorSafety, [Next]_vars, NEW c \in Peers, RequestFollows(c)
  PROVE  RequestFollows(c)'
  <1> USE DEF CoordinatorSafety
  <1>1. CASE pending'[c] # {}
    BY <1>1 DEF RequestFollows, Quiet
  <1>2. ASSUME Untouched(c) PROVE RequestFollows(c)'
    BY <1>2 DEF Untouched, RequestFollows, Quiet, Request, Now
  <1>3. ASSUME SurroundingsChange, pending'[c] = {} PROVE Untouched(c)
    BY <1>3, UntouchedBySurroundings
  <1>4. ASSUME NEW d \in Peers, d # c,
               \/ Issue(d) \/ Retry(d) \/ HookStep(d) \/ KubernetesFails(d)
               \/ \E e \in Events : Dispatch(d, e)
        PROVE  Untouched(c)
    BY <1>4, HookLeavesOthers
  <1>5. ASSUME Enter(c), UNCHANGED <<surroundings, certificates>> PROVE RequestFollows(c)'
    <2>1. Now(c)' = Now(c)
      BY <1>5 DEF Now, surroundings, certificates
    <2>2. CanHandleEvents(Now(c)) => pc'[c] = "reconcile"
      BY <1>5 DEF Enter, Move, Typed, TypeOK
    <2> QED
      BY <2>1, <2>2 DEF RequestFollows, Quiet
  <1>6. CASE Issue(c)
    BY <1>1, <1>6 DEF Issue, Notify, Typed, TypeOK
  <1>7. CASE Retry(c)
    BY <1>5, <1>7 DEF Retry
  <1>8. ASSUME NEW e \in Events, Dispatch(c, e) PROVE RequestFollows(c)'
    <2>1. CASE e \notin NON_RECONCILABLE_EVENTS
      BY <1>5, <1>8, <2>1 DEF Dispatch
    <2>2. CASE e \in NON_RECONCILABLE_EVENTS
      BY <1>2, <1>8, <2>2, IgnoredIsUntouched
    <2> QED
      BY <2>1, <2>2
  <1>9. CASE Reconcile(c) \/ ReconcilePolicies(c) \/ CommitRefused(c) \/ KubernetesFails(c)
    <2>1. pc'[c] # "idle"
      BY <1>9 DEF Reconcile, ReconcilePolicies, CommitRefused, KubernetesFails, Move, End,
                  Typed, TypeOK
    <2> QED
      BY <2>1 DEF RequestFollows, Quiet
  <1>10. CASE Commit(c)
    <2> SUFFICES ASSUME pending'[c] = {} PROVE RequestFollows(c)'
      BY <1>1
    <2>1. view[c] = Now(c)
      BY <1>10 DEF Commit, PeerInv, ViewIsFresh, Running
    <2> QED
      BY <1>10, <2>1, CommittedRequest DEF RequestFollows
  <1>11. CASE UNCHANGED vars
    BY <1>2, <1>11 DEF vars, Untouched, Now
  <1> QED
    BY <1>1, <1>2, <1>3, <1>4, <1>6, <1>7, <1>8, <1>9, <1>10, <1>11 DEF Next, HookStep

\* A quiet leader has done it all.
LEMMA QuietHasPublished ==
  ASSUME CoordinatorSafety, NEW c \in Peers, RequestFollows(c),
         leader = c, Quiet(c), CanHandleEvents(Now(c))
  PROVE  HasPublished(c)
  BY DEF CoordinatorSafety, PeerInv, NginxFollows, PublicationHolds, RequestFollows, Quiet,
         HasPublished, Running

\* What the step of another peer, or of the surroundings, leaves of it.
LEMMA UntouchedHasPublished ==
  ASSUME NEW c \in Peers, HasPublished(c), Untouched(c), leader' = leader
  PROVE  HasPublished(c)' /\ UNCHANGED <<databag, request[c], issued[c], nginx[c]>>
  <1>1. request'[c] = request[c] /\ issued'[c] = issued[c]
    BY DEF Untouched, Now
  <1>2. Request(c, Now(c))' = Request(c, Now(c))
    BY DEF Untouched, Request, Now
  <1>3. databag' = databag
    BY DEF Untouched, HasPublished
  <1> QED
    BY <1>1, <1>2, <1>3 DEF Untouched, HasPublished, Running

\* A step that only goes from one line of the hook to the next.
LEMMA MovedHasPublished ==
  ASSUME NEW c \in Peers, HasPublished(c),
         UNCHANGED <<surroundings, certificates, pending, databag>>,
         nginx'[c] = NginxConfig(c, Now(c)),
         Running(c)' => view'[c] = Now(c)
  PROVE  HasPublished(c)' /\ UNCHANGED <<databag, request[c], issued[c], nginx[c]>>
  <1>1. Now(c)' = Now(c)
    BY DEF Now, surroundings, certificates
  <1>2. Request(c, Now(c))' = Request(c, Now(c))
    BY <1>1 DEF Request
  <1>3. nginx'[c] = nginx[c]
    BY DEF HasPublished
  <1> QED
    BY <1>1, <1>2, <1>3 DEF HasPublished, surroundings, certificates

\* Committing the same again changes nothing: not the request, so not the certificate.
LEMMA CommittedHasPublished ==
  ASSUME Typed, NEW c \in Peers, HasPublished(c), Commit(c)
  PROVE  HasPublished(c)' /\ UNCHANGED <<databag, request[c], issued[c], nginx[c]>>
  <1>1. view[c] = Now(c)
    BY DEF HasPublished, Commit, Running
  <1>2. request'[c] = request[c] /\ Request(c, Now(c)') = Request(c, Now(c))
    BY <1>1, CommittedRequest DEF HasPublished
  <1>3. issued'[c] = issued[c]
    BY <1>1, <1>2 DEF Commit, Request, Now, Typed, TypeOK, HasPublished
  <1>4. Now(c)' = Now(c)
    BY <1>2, <1>3 DEF Commit, Now, surroundings
  <1>5. databag' = databag
    <2>1. \A a \in Apps : Writes(c, a) => Publication(c, view[c], a) = databag[a]
      BY <1>1 DEF HasPublished, Writes
    <2>2. databag' = [a \in Apps |-> databag[a]]
      BY <2>1 DEF Commit
    <2> QED
      BY <2>2 DEF Typed, TypeOK
  <1>6. pc'[c] = "idle" /\ UNCHANGED <<leader, pending, nginx>>
    BY DEF Commit, End, Move, surroundings, Typed, TypeOK
  <1> QED
    BY <1>2, <1>3, <1>4, <1>5, <1>6 DEF HasPublished, Running

\* A hook that starts reads the cluster there is.
LEMMA EnteredHasPublished ==
  ASSUME Typed, NEW c \in Peers, HasPublished(c), Enter(c),
         UNCHANGED <<surroundings, certificates, pending, results>>
  PROVE  HasPublished(c)' /\ UNCHANGED <<databag, request[c], issued[c], nginx[c]>>
  <1>1. Running(c)' => view'[c] = Now(c)
    BY DEF Enter, End, Move, Running, Typed, TypeOK
  <1> QED
    BY <1>1, MovedHasPublished DEF results, HasPublished

LEMMA NextHasPublished ==
  ASSUME CoordinatorSafety, [Next]_vars, NEW c \in Peers, HasPublished(c),
         UNCHANGED <<surroundings, pending[c]>>
  PROVE  HasPublished(c)' /\ UNCHANGED <<databag, request[c], issued[c], nginx[c]>>
  <1> DEFINE Goal == HasPublished(c)' /\ UNCHANGED <<databag, request[c], issued[c], nginx[c]>>
  <1> USE DEF CoordinatorSafety
  <1>1. pending'[c] = {} /\ pending[c] = {} /\ leader' = leader
    BY DEF HasPublished, surroundings
  <1>2. ASSUME Untouched(c) PROVE Goal
    BY <1>1, <1>2, UntouchedHasPublished
  <1>3. CASE SurroundingsChange
    BY <1>1, <1>2, <1>3, UntouchedBySurroundings
  <1>4. ASSUME NEW d \in Peers, d # c,
               \/ Issue(d) \/ Retry(d) \/ HookStep(d) \/ KubernetesFails(d)
               \/ \E e \in Events : Dispatch(d, e)
        PROVE  Goal
    BY <1>2, <1>4, HookLeavesOthers
  <1>5. CASE Issue(c)
    <2>1. pending' = [pending EXCEPT ![c] = @ \cup {"relation_changed"}]
      BY <1>5 DEF Issue, Notify
    <2>2. pending'[c] # {}
      BY <2>1 DEF Typed, TypeOK
    <2> QED
      BY <1>1, <2>2
  <1>6. CASE Retry(c)
    BY <1>6, EnteredHasPublished DEF Retry
  <1>7. ASSUME NEW e \in Events, Dispatch(c, e) PROVE Goal
    <2>1. CASE e \notin NON_RECONCILABLE_EVENTS
      <3>1. pending' = pending
        BY <1>1, <1>7 DEF Dispatch, Typed, TypeOK
      <3> QED
        BY <1>7, <2>1, <3>1, EnteredHasPublished DEF Dispatch
    <2>2. CASE e \in NON_RECONCILABLE_EVENTS
      BY <1>2, <1>7, <2>2, IgnoredIsUntouched
    <2> QED
      BY <2>1, <2>2
  <1>8. CASE Reconcile(c)
    <2>1. view[c] = Now(c) /\ view' = view
      BY <1>8 DEF Reconcile, HasPublished, Running
    <2>2. nginx'[c] = NginxConfig(c, Now(c))
      <3>1. nginx' = [nginx EXCEPT ![c] = NginxConfig(c, view[c])] /\ DOMAIN nginx = Peers
        BY <1>8 DEF Reconcile, Typed, TypeOK
      <3> QED
        BY <2>1, <3>1
    <2> QED
      BY <1>8, <2>1, <2>2, MovedHasPublished DEF Reconcile
  <1>9. CASE ReconcilePolicies(c)
    <2>1. view[c] = Now(c) /\ view' = view /\ nginx' = nginx
      BY <1>9 DEF ReconcilePolicies, HasPublished, Running
    <2> QED
      BY <1>9, <2>1, MovedHasPublished DEF ReconcilePolicies, HasPublished
  <1>10. CASE CommitRefused(c) \/ KubernetesFails(c)
    <2>1. ~Running(c)'
      BY <1>10 DEF CommitRefused, KubernetesFails, End, Move, Running, Typed, TypeOK
    <2> QED
      BY <1>10, <2>1, MovedHasPublished DEF CommitRefused, KubernetesFails, results, HasPublished
  <1>11. CASE Commit(c)
    BY <1>11, CommittedHasPublished
  <1>12. CASE UNCHANGED vars
    BY <1>2, <1>12 DEF vars, Untouched, Now
  <1> QED
    BY <1>3, <1>4, <1>5, <1>6, <1>7, <1>8, <1>9, <1>10, <1>11, <1>12 DEF Next, HookStep

\* Publishing does not feed on itself: a quiet leader has asked for its certificate, has set
\* up its nginx and told every worker app that is ready, and the hooks it runs from then on,
\* in whatever order, failing or not, change none of that until the surroundings change or
\* an event is queued for it.  No worker is told anything by an update_status.
THEOREM PublishingNeedsAChange ==
  Spec => /\ []\A c \in Peers : leader = c /\ Quiet(c) /\ CanHandleEvents(Now(c)) => HasPublished(c)
          /\ [][\A c \in Peers : HasPublished(c) /\ UNCHANGED <<surroundings, pending[c]>> =>
                    /\ HasPublished(c)'
                    /\ UNCHANGED <<databag, request[c], issued[c], nginx[c]>>]_vars
  <1> DEFINE Requests == \A c \in Peers : RequestFollows(c)
             Reached == \A c \in Peers :
                            leader = c /\ Quiet(c) /\ CanHandleEvents(Now(c)) => HasPublished(c)
             Kept == \A c \in Peers : HasPublished(c) /\ UNCHANGED <<surroundings, pending[c]>> =>
                         /\ HasPublished(c)'
                         /\ UNCHANGED <<databag, request[c], issued[c], nginx[c]>>
  <1>1. Init => Requests
    BY DEF Init, RequestFollows, CanHandleEvents, Now, Related
  <1>2. CoordinatorSafety /\ Requests /\ [Next]_vars => Requests'
    BY NextRequestFollows
  <1>3. CoordinatorSafety /\ Requests => Reached
    BY QuietHasPublished
  <1>4. CoordinatorSafety /\ [Next]_vars => Kept
    BY NextHasPublished
  <1> HIDE DEF Requests, Reached, Kept
  <1>5. Spec => []Reached /\ [][Kept]_vars
    BY <1>1, <1>2, <1>3, <1>4, CoordinatorIsSafe, PTL DEF Spec
  <1> QED
    BY <1>5 DEF Reached, Kept
=============================================================================
