--------------------------- MODULE TelemetryProofs ---------------------------
(***************************************************************************)
(* Theorems about Telemetry, for every set of peers, applications, units,  *)
(* endpoints and names.                                                    *)
(***************************************************************************)
EXTENDS TelemetryInv, CoordinatorProofs, FiniteSetTheorems, WellFoundedInduction

-----------------------------------------------------------------------------
(* Telemetry leaves the coordinator as it is. *)

\* A change of the sources is one of the events that Coordinator leaves open.
LEMMA SourcesAreOtherRelations ==
  ASSUME \/ \E l \in LokiUnits : LokiJoins(l) \/ LokiPublishes(l) \/ LokiDeparts(l)
         \/ RemoteWriteChanges
         \/ \E r \in Receivers : TracingChanges(r)
  PROVE  \E s : SourcesChange(s)
  BY DEF LokiJoins, LokiPublishes, LokiDeparts, RemoteWriteChanges, TracingChanges

LEMMA TelemetryStep == [TelemetryNext]_telemetryVars => [Next]_vars
  <1> SUFFICES ASSUME TelemetryNext PROVE Next
    BY DEF telemetryVars
  <1> USE DEF Next, SurroundingsChange
  <1>1. CASE \E s : SourcesChange(s)
    BY <1>1 DEF SourcesChange
  <1>2. CASE OtherChanges
    BY <1>2 DEF OtherChanges
  <1>3. CASE WorkersCome
    BY <1>3, CoordinatorAssumption DEF WorkersCome
  <1>4. ASSUME NEW c \in Peers,
               \/ NginxStartsAnew(c) \/ CertificateIssued(c)
               \/ HookRetries(c) \/ HookProceeds(c) \/ HookFails(c)
        PROVE  Next
    BY <1>4 DEF NginxStartsAnew, CertificateIssued, HookRetries, HookProceeds, HookFails,
                NginxReconciles, PoliciesReconcile, HookCommits, HookRefused, HookStep
  <1>5. ASSUME NEW c \in Peers, NEW e \in Events, HookStarts(c, e) PROVE Next
    BY <1>5 DEF HookStarts
  <1> QED
    BY <1>1, <1>2, <1>3, <1>4, <1>5, SourcesAreOtherRelations DEF TelemetryNext

\* What telemetry adds to the hooks takes nothing away from them: the theorems about the
\* coordinator hold of it.
THEOREM TelemetryImplementsCoordinator == TelemetrySpec => Spec
  <1>1. TelemetryInit => Init
    BY DEF TelemetryInit
  <1> QED
    BY <1>1, TelemetryStep, PTL DEF TelemetrySpec, Spec

-----------------------------------------------------------------------------
(* The inductive invariant. *)

LEMMA SourcesStayTyped ==
  ASSUME TelemetryTyped,
         \/ \E l \in LokiUnits : LokiJoins(l) \/ LokiPublishes(l) \/ LokiDeparts(l)
         \/ RemoteWriteChanges
         \/ \E r \in Receivers : TracingChanges(r)
  PROVE  sources' \in Sources
  <1> USE DEF TelemetryTyped, Sources, SourcesChange
  <1>1. ASSUME NEW l \in LokiUnits, LokiJoins(l) \/ LokiPublishes(l) \/ LokiDeparts(l)
        PROVE  sources' \in Sources
    <2>1. PICK state \in {"absent", "joined", "ready"} :
                 sources' = [sources EXCEPT !.logging[l] = state]
      BY <1>1 DEF LokiJoins, LokiPublishes, LokiDeparts
    <2>2. [sources.logging EXCEPT ![l] = state] \in [LokiUnits -> {"absent", "joined", "ready"}]
      OBVIOUS
    <2> QED
      BY <2>1, <2>2
  <1>2. CASE RemoteWriteChanges
    BY <1>2 DEF RemoteWriteChanges
  <1>3. ASSUME NEW r \in Receivers, TracingChanges(r) PROVE sources' \in Sources
    <2>1. PICK receivers \in SUBSET Receivers : sources' = [sources EXCEPT !.tracing = receivers]
      BY <1>3 DEF TracingChanges
    <2> QED
      BY <2>1
  <1> QED
    BY <1>1, <1>2, <1>3

\* What is made of a view depends on the databags of the workers and the certificate.
LEMMA ViewsAlike ==
  ASSUME NEW c, NEW v, NEW w, NEW s, v.cluster = w.cluster, TLS(c, v) = TLS(c, w)
  PROVE  /\ ProxyConfig(c, v, s) = ProxyConfig(c, w, s)
         /\ ProxyUrls(c, v, s) = ProxyUrls(c, w, s)
         /\ ScrapeJobs(c, v) = ScrapeJobs(c, w)
  <1>1. TopologyUnits(v) = TopologyUnits(w)
    BY DEF TopologyUnits, Related
  <1>2. GatherAddressesByRole(v) = GatherAddressesByRole(w)
    BY DEF GatherAddressesByRole, Related
  <1>3. Endpoints(v, s) = Endpoints(w, s)
    BY <1>1 DEF Endpoints
  <1>4. Upstreams(v, s) = Upstreams(w, s) /\ Locations(v, s) = Locations(w, s)
    BY <1>3 DEF Upstreams, Locations
  <1>5. AddressBook(v, s) = AddressBook(w, s)
    BY <1>1, <1>2 DEF AddressBook
  <1> QED
    BY <1>1, <1>2, <1>4, <1>5 DEF ProxyConfig, ProxyUrls, ScrapeJobs, Scheme

LEMMA InitTelemetrySafe == TelemetryInit => TelemetrySafety
  <1> SUFFICES ASSUME TelemetryInit PROVE TelemetrySafety
    OBVIOUS
  <1>1. TelemetryTyped
    BY DEF TelemetryInit, TelemetryTyped
  <1>2. ASSUME NEW c \in Peers PROVE ProxyInv(c)
    <2>1. pc[c] = "idle" /\ ~CanHandleEvents(Now(c))
      BY DEF TelemetryInit, Init, CanHandleEvents, Now, Related
    <2> QED
      BY <2>1 DEF ProxyInv, HeardIsFresh, ProxyFollows, RequestFollows, AdvertisedHolds, Running
  <1> QED
    BY <1>1, <1>2 DEF TelemetrySafety

LEMMA QueuedProxyIsSafe ==
  ASSUME NEW c \in Peers, pending'[c] # {}
  PROVE  ProxyInv(c)'
  BY DEF ProxyInv, HeardIsFresh, ProxyFollows, RequestFollows, AdvertisedHolds, Quiet

\* A peer that is not touched, nor the sources, and does not become the leader.
ProxyUntouched(c) ==
    /\ Untouched(c)
    /\ sources' = sources
    /\ Running(c) => heard'[c] = heard[c]
    /\ proxy'[c] = proxy[c]
    /\ leader' = c => jobs' = jobs /\ \A a \in Apps : advertised'[a] = advertised[a]

LEMMA UntouchedProxyIsSafe ==
  ASSUME NEW c \in Peers, ProxyInv(c), ProxyUntouched(c)
  PROVE  ProxyInv(c)'
  <1> USE DEF ProxyInv, ProxyUntouched, Untouched
  <1>1. HeardIsFresh(c)'
    BY DEF HeardIsFresh, Running
  <1>2. ProxyFollows(c)'
    BY DEF ProxyFollows, Quiet, Running
  <1>3. RequestFollows(c)'
    <2>1. request'[c] = request[c]
      BY DEF Now
    <2> QED
      BY <2>1 DEF RequestFollows, Quiet
  <1>4. AdvertisedHolds(c)'
    BY DEF AdvertisedHolds, Quiet
  <1> QED
    BY <1>1, <1>2, <1>3, <1>4

\* Whatever changes around the coordinator queues an event for the peers that read it.
LEMMA ChangesSafe ==
  ASSUME CoordinatorSafety, TelemetrySafety,
         \/ \E s : SourcesChange(s)
         \/ OtherChanges \/ WorkersCome
         \/ \E d \in Peers : NginxStartsAnew(d) \/ CertificateIssued(d),
         NEW c \in Peers
  PROVE  ProxyInv(c)'
  <1>1. CASE NotifyAll
    <2>1. pending'[c] # {}
      BY <1>1 DEF NotifyAll
    <2> QED
      BY <2>1, QueuedProxyIsSafe
  <1>2. ASSUME NEW d \in Peers,
               \/ NginxStartsAnew(d)
               \/ CertificateIssued(d)
               \/ OtherChanges /\ ElectLeader(d)
        PROVE  ProxyInv(c)'
    <2>1. PICK kind : pending' = [pending EXCEPT ![d] = @ \cup {kind}]
      BY <1>2 DEF NginxStartsAnew, CertificateIssued, NginxRestarts, Issue, ElectLeader, Notify
    <2>2. pending \in [Peers -> SUBSET QueuedEvents]
      BY DEF CoordinatorSafety, Typed, TypeOK
    <2>3. CASE c = d
      <3>1. pending'[c] # {}
        BY <2>1, <2>2, <2>3
      <3> QED
        BY <3>1, QueuedProxyIsSafe
    <2>4. CASE c # d
      <3>1. Untouched(c)
        BY <1>2, <2>1, <2>4 DEF NginxStartsAnew, CertificateIssued, NginxRestarts, Issue,
               ElectLeader, Untouched, Now, surroundings, certificates, progress, results,
               CoordinatorSafety, Typed, TypeOK
      <3>2. ProxyUntouched(c)
        BY <1>2, <2>4, <3>1 DEF NginxStartsAnew, CertificateIssued, OtherChanges, ElectLeader,
               ProxyUntouched, proxyVars, TelemetrySafety, TelemetryTyped
      <3> QED
        BY <3>2, UntouchedProxyIsSafe DEF TelemetrySafety
    <2> QED
      BY <2>3, <2>4
  <1> QED
    BY <1>1, <1>2 DEF SourcesChange, OtherRelationChanges, OtherChanges, WorkersCome,
                      Relate, RemoveRelation, UnitJoins, UnitPublishes, UnitDeparts,
                      ClusterChanges, S3Changes, AuthorityChanges

\* A step of the hook of a peer.
ProxyHook(c) ==
    HookRetries(c) \/ HookProceeds(c) \/ HookFails(c) \/ \E e \in Events : HookStarts(c, e)

\* It leaves the others alone: only the leader advertises.
LEMMA ProxyHookLeavesOthers ==
  ASSUME CoordinatorSafety, TelemetrySafety, NEW c \in Peers, NEW d \in Peers, c # d, ProxyHook(c)
  PROVE  ProxyUntouched(d)
  <1> USE DEF ProxyHook, HookProceeds, TelemetrySafety, TelemetryTyped
  <1>1. Untouched(d)
    BY HookLeavesOthers DEF HookRetries, HookFails, HookStarts, NginxReconciles,
       PoliciesReconcile, HookCommits, HookRefused, HookStep
  <1>2. sources' = sources /\ heard'[d] = heard[d] /\ proxy'[d] = proxy[d]
    BY DEF HookRetries, HookFails, HookStarts, Hears, NginxReconciles, PoliciesReconcile,
           HookCommits, HookRefused, HookEnds, proxyVars
  <1>3. ASSUME leader' = d
        PROVE  jobs' = jobs /\ \A a \in Apps : advertised'[a] = advertised[a]
    <2>1. CASE HookCommits(c)
      <3>1. ~publishing[c]
        BY <1>3, <2>1 DEF HookCommits, Commit, surroundings, CoordinatorSafety, Typed, TypeOK
      <3> QED
        BY <2>1, <3>1 DEF HookCommits, Writes
    <2>2. CASE ~HookCommits(c)
      BY <2>2 DEF HookRetries, HookFails, HookStarts, Hears, NginxReconciles, PoliciesReconcile,
                  HookRefused, proxyVars
    <2> QED
      BY <2>1, <2>2
  <1> QED
    BY <1>1, <1>2, <1>3 DEF ProxyUntouched

\* A hook that starts reads the sources that there are.
LEMMA HearingIsSafe ==
  ASSUME CoordinatorSafety, TelemetrySafety, NEW c \in Peers,
         HookRetries(c) \/ \E e \in Events : HookStarts(c, e)
  PROVE  ProxyInv(c)'
  <1> USE DEF CoordinatorSafety, Typed, TypeOK, TelemetrySafety, TelemetryTyped
  <1>1. CASE Enter(c)
    <2>1. Now(c)' = Now(c)
      BY DEF HookRetries, HookStarts, Retry, Dispatch, Now, surroundings, certificates
    <2>2. heard'[c] = IF pc'[c] = "reconcile" THEN sources' ELSE NoView
      BY DEF HookRetries, HookStarts, Hears
    <2>3. \/ pc'[c] = "reconcile"
          \/ pc'[c] = "idle" /\ ~CanHandleEvents(Now(c))'
      BY <1>1, <2>1 DEF Enter, End, Move
    <2> QED
      BY <2>2, <2>3 DEF ProxyInv, HeardIsFresh, ProxyFollows, RequestFollows, AdvertisedHolds,
                        Quiet, Running
  <1>2. ASSUME NEW e \in NON_RECONCILABLE_EVENTS, HookStarts(c, e) PROVE ProxyInv(c)'
    <2>1. pending' = pending
      <3>1. e \notin pending[c]
        BY <1>2 DEF NON_RECONCILABLE_EVENTS, QueuedEvents
      <3> QED
        BY <1>2, <3>1 DEF HookStarts, Dispatch
    <2>2. Untouched(c) /\ pc[c] = "idle"
      BY <1>2, <2>1 DEF HookStarts, Dispatch, Untouched, Now, surroundings, certificates,
                        progress, results
    <2>3. ProxyUntouched(c)
      BY <1>2, <2>2 DEF HookStarts, Hears, ProxyUntouched, Running
    <2> QED
      BY <2>3, UntouchedProxyIsSafe
  <1> QED
    BY <1>1, <1>2 DEF HookRetries, HookStarts, Retry, Dispatch, Events

\* A hook that ends well leaves nginx, the request and the URLs as what it read calls for.
LEMMA CommittedProxyIsSafe ==
  ASSUME CoordinatorSafety, TelemetrySafety, NEW c \in Peers, HookCommits(c)
  PROVE  ProxyInv(c)'
  <1> USE DEF CoordinatorSafety, Typed, TypeOK, TelemetrySafety, TelemetryTyped
  <1>1. /\ pc[c] = "commit" /\ pc'[c] = "idle"
        /\ pending' = pending /\ leader' = leader /\ cluster' = cluster /\ authority' = authority
        /\ sources' = sources /\ proxy' = proxy
    BY DEF HookCommits, Commit, End, Move, surroundings
  <1>2. SUFFICES ASSUME pending[c] = {} PROVE ProxyInv(c)'
    BY <1>1, QueuedProxyIsSafe
  <1>3. /\ view[c] = Now(c) /\ heard[c] = sources
        /\ proxy[c] = ProxyConfig(c, view[c], heard[c])
    BY <1>1, <1>2 DEF PeerInv, ViewIsFresh, ProxyInv, HeardIsFresh, ProxyFollows, Running
  <1>4. Now(c)'.cluster = Now(c).cluster /\ TLS(c, Now(c)') = TLS(c, Now(c))
    BY <1>1, <1>3, CommitKeepsTLS DEF HookCommits, Now
  <1>5. /\ ProxyConfig(c, Now(c)', sources) = ProxyConfig(c, Now(c), sources)
        /\ ProxyUrls(c, Now(c)', sources) = ProxyUrls(c, Now(c), sources)
        /\ ScrapeJobs(c, Now(c)') = ScrapeJobs(c, Now(c))
    BY <1>4, ViewsAlike
  <1>6. HeardIsFresh(c)'
    BY <1>1 DEF HeardIsFresh, Running
  <1>7. ProxyFollows(c)'
    BY <1>1, <1>3, <1>5 DEF ProxyFollows
  <1>8. RequestFollows(c)'
    BY <1>3, CommittedRequest DEF HookCommits, RequestFollows
  <1>9. AdvertisedHolds(c)'
    <2> SUFFICES ASSUME leader = c
                 PROVE  /\ \A a \in Apps : RemoteDataReady(Now(c)', a) =>
                               advertised'[a] = ProxyUrls(c, Now(c)', sources)
                        /\ jobs' = ScrapeJobs(c, Now(c)')
      BY <1>1 DEF AdvertisedHolds
    <2>1. publishing[c]
      BY <1>1, <1>2 DEF PeerInv, LeaderPublishes
    <2>2. ASSUME NEW a \in Apps, RemoteDataReady(Now(c)', a)
          PROVE  Writes(c, a)
      BY <1>1, <1>3, <2>1, <2>2 DEF Writes, RemoteDataReady, Related, Now
    <2> QED
      BY <1>3, <1>5, <2>1, <2>2 DEF HookCommits
  <1> QED
    BY <1>6, <1>7, <1>8, <1>9 DEF ProxyInv

LEMMA ProxyHookSafe ==
  ASSUME CoordinatorSafety, TelemetrySafety, NEW c \in Peers, ProxyHook(c)
  PROVE  \A d \in Peers : ProxyInv(d)'
  <1> USE DEF CoordinatorSafety, Typed, TypeOK, TelemetrySafety, TelemetryTyped
  <1>1. ASSUME NEW d \in Peers, c # d PROVE ProxyInv(d)'
    BY <1>1, ProxyHookLeavesOthers, UntouchedProxyIsSafe
  <1>2. CASE NginxReconciles(c)
    <2>1. /\ pc[c] = "reconcile" /\ pc'[c] = "policies"
          /\ pending' = pending /\ view' = view
          /\ sources' = sources /\ heard' = heard
          /\ proxy'[c] = ProxyConfig(c, view[c], heard[c])
      BY <1>2 DEF NginxReconciles, Reconcile, Move
    <2> QED
      BY <1>1, <2>1 DEF ProxyInv, HeardIsFresh, ProxyFollows, RequestFollows, AdvertisedHolds,
                        Quiet, Running
  <1>3. CASE PoliciesReconcile(c)
    <2>1. /\ pc[c] = "policies" /\ pc'[c] = "commit"
          /\ pending' = pending /\ view' = view
          /\ sources' = sources /\ heard' = heard /\ proxy' = proxy
      BY <1>3 DEF PoliciesReconcile, ReconcilePolicies, Move, proxyVars
    <2> QED
      BY <1>1, <2>1 DEF ProxyInv, HeardIsFresh, ProxyFollows, RequestFollows, AdvertisedHolds,
                        Quiet, Running
  <1>4. CASE HookRefused(c) \/ HookFails(c)
    <2>1. pc'[c] = "failed"
      BY <1>4 DEF HookRefused, HookFails, CommitRefused, KubernetesFails, End, Move
    <2> QED
      BY <1>1, <2>1 DEF ProxyInv, HeardIsFresh, ProxyFollows, RequestFollows, AdvertisedHolds,
                        Quiet, Running
  <1> QED
    BY <1>1, <1>2, <1>3, <1>4, HearingIsSafe, CommittedProxyIsSafe DEF ProxyHook, HookProceeds

LEMMA TelemetryStaysTyped ==
  ASSUME TelemetryTyped, TelemetryNext
  PROVE  TelemetryTyped'
  <1> USE DEF TelemetryTyped
  <1>1. CASE \/ \E l \in LokiUnits : LokiJoins(l) \/ LokiPublishes(l) \/ LokiDeparts(l)
             \/ RemoteWriteChanges
             \/ \E r \in Receivers : TracingChanges(r)
    BY <1>1, SourcesStayTyped, SourcesAreOtherRelations DEF SourcesChange
  <1>2. CASE OtherChanges \/ WorkersCome
    BY <1>2 DEF OtherChanges, WorkersCome, proxyVars
  <1>3. ASSUME NEW c \in Peers, NginxStartsAnew(c) \/ CertificateIssued(c) \/ ProxyHook(c)
        PROVE  TelemetryTyped'
    BY <1>3 DEF NginxStartsAnew, CertificateIssued, ProxyHook, HookProceeds, HookRetries,
       HookFails, HookStarts, Hears, NginxReconciles, PoliciesReconcile, HookCommits,
       HookRefused, HookEnds, proxyVars
  <1> QED
    BY <1>1, <1>2, <1>3 DEF TelemetryNext, ProxyHook

LEMMA NextTelemetrySafe ==
  CoordinatorSafety /\ TelemetrySafety /\ [TelemetryNext]_telemetryVars => TelemetrySafety'
  <1> SUFFICES ASSUME CoordinatorSafety, TelemetrySafety, [TelemetryNext]_telemetryVars
               PROVE  TelemetrySafety'
    OBVIOUS
  <1>1. CASE TelemetryNext
    <2>1. TelemetryTyped'
      BY <1>1, TelemetryStaysTyped DEF TelemetrySafety
    <2>2. \A c \in Peers : ProxyInv(c)'
      BY <1>1, SourcesAreOtherRelations, ChangesSafe, ProxyHookSafe DEF TelemetryNext, ProxyHook
    <2> QED
      BY <2>1, <2>2 DEF TelemetrySafety
  <1>2. CASE UNCHANGED telemetryVars
    <2>1. TelemetryTyped'
      BY <1>2 DEF telemetryVars, proxyVars, TelemetrySafety, TelemetryTyped
    <2>2. ASSUME NEW c \in Peers PROVE ProxyInv(c)'
      <3>1. ProxyUntouched(c)
        BY <1>2 DEF telemetryVars, vars, proxyVars, ProxyUntouched, Untouched, Now
      <3> QED
        BY <3>1, UntouchedProxyIsSafe DEF TelemetrySafety
    <2> QED
      BY <2>1, <2>2 DEF TelemetrySafety
  <1> QED
    BY <1>1, <1>2

\* What is proxied and what is advertised come from one reading of the endpoints.
THEOREM TelemetryIsSafe == TelemetrySpec => []TelemetrySafety
  <1>1. TelemetrySpec => []CoordinatorSafety
    BY TelemetryImplementsCoordinator, CoordinatorIsSafe, PTL
  <1> QED
    BY <1>1, InitTelemetrySafe, NextTelemetrySafe, PTL DEF TelemetrySpec

-----------------------------------------------------------------------------
(* Where the proxy leads. *)

\* A set of numbers has a least one.
LEMMA LeastNumber ==
  ASSUME NEW S \in SUBSET Nat, S # {}
  PROVE  \E n \in S : \A m \in S : n <= m
  <1> DEFINE R == {ss \in Nat \X Nat : ss[1] < ss[2]}
  <1>1. IsWellFoundedOn(R, Nat)
    BY NatLessThanWellFounded, Zenon DEF OpToRel
  <1>2. PICK n \in S : \A m \in S : ~(<<m, n>> \in R)
    <2> HIDE DEF R
    <2> QED
      BY <1>1, WFMin
  <1>3. ASSUME NEW m \in S PROVE n <= m
    <2>1. m \in Nat /\ n \in Nat
      OBVIOUS
    <2>2. m < n => <<m, n>> \in R
      BY <2>1
    <2> QED
      BY <1>2, <2>1, <2>2
  <1> QED
    BY <1>3

\* A bounded one has a greatest.
LEMMA GreatestNumber ==
  ASSUME NEW b \in Nat, NEW S \in SUBSET (1..b), S # {}
  PROVE  \E n \in S : \A m \in S : m <= n
  <1> DEFINE T == {b - n : n \in S}
  <1>1. \A n \in S : n \in Nat /\ b - n \in Nat
    OBVIOUS
  <1>2. T \in SUBSET Nat /\ T # {}
    BY <1>1
  <1>3. PICK t \in T : \A u \in T : t <= u
    <2> HIDE DEF T
    <2> QED
      BY <1>2, LeastNumber
  <1>4. PICK n \in S : t = b - n
    BY <1>3
  <1>5. \A m \in S : b - n <= b - m
    BY <1>3, <1>4
  <1> QED
    BY <1>1, <1>5

LEMMA EndpointsAre ==
  ASSUME NEW v \in Views, NEW s \in Sources, NEW e
  PROVE  e \in Endpoints(v, s) <=>
            \/ \E u \in TopologyUnits(v) : e = [kind |-> "metrics", name |-> u]
            \/ \E l \in LokiUpstreams(s) : e = [kind |-> "logging", name |-> l]
            \/ \E i \in DOMAIN s.remote : e = [kind |-> "remote-write", name |-> s.remote[i]]
            \/ \E r \in s.tracing : e = [kind |-> "tracing", name |-> r]
  BY DEF Endpoints, Endpoint, Remotes

LEMMA EndpointsArePossible ==
  ASSUME NEW v \in Views, NEW s \in Sources
  PROVE  Endpoints(v, s) \subseteq Possible(s.remote)
  <1>1. TopologyUnits(v) \subseteq Units
    <2>1. \A a \in Related(v) : v.cluster[a] \in ClusterData
      BY DEF Related, Views
    <2> QED
      BY <2>1 DEF TopologyUnits, ClusterData
  <1>2. LokiUpstreams(s) \subseteq LokiUnits /\ s.tracing \subseteq Receivers
    BY DEF LokiUpstreams, Sources
  <1> QED
    BY <1>1, <1>2 DEF Endpoints, Endpoint, Possible, Remotes

\* The names of the endpoints there are differ.
LEMMA NamesAreTheirOwn ==
  ASSUME NamesDiffer, NEW v \in Views, NEW s \in Sources,
         NEW d \in Endpoints(v, s), NEW e \in Endpoints(v, s), d # e
  PROVE  UpstreamName(d) # UpstreamName(e) /\ LookupKey(d) # LookupKey(e)
  <1>1. s.remote \in RemoteWrites
    BY DEF Sources
  <1>2. d \in Possible(s.remote) /\ e \in Possible(s.remote)
    BY EndpointsArePossible
  <1> QED
    BY <1>1, <1>2 DEF NamesDiffer

\* However often the charm lists a remote write, it makes an upstream, and its address stays.
LEMMA RemoteWriteIsFound ==
  ASSUME NamesDiffer, NEW v \in Views, NEW s \in Sources, NEW i \in DOMAIN s.remote
  PROVE  /\ IsFirst(s.remote[i], s)
         /\ RemoteAddresses(s)[Label[s.remote[i].host]] = {s.remote[i].host}
  <1> DEFINE r == s.remote[i]
             Named == {k \in DOMAIN s.remote : Label[s.remote[k].host] = Label[r.host]}
  <1>1. s.remote \in RemoteWrites /\ DOMAIN s.remote = 1..Len(s.remote) /\ Len(s.remote) \in Nat
    BY TelemetryAssumption DEF Sources
  <1>2. \A k \in Named : s.remote[k] = r
    <2> SUFFICES ASSUME NEW k \in Named, s.remote[k] # r PROVE FALSE
      OBVIOUS
    <2> DEFINE d == [kind |-> "remote-write", name |-> s.remote[k]]
               e == [kind |-> "remote-write", name |-> r]
    <2>1. d \in Endpoints(v, s) /\ e \in Endpoints(v, s)
      BY EndpointsAre
    <2>2. d # e
      OBVIOUS
    <2>3. UpstreamName(d) = UpstreamName(e)
      BY DEF UpstreamName
    <2> QED
      BY <2>1, <2>2, <2>3, NamesAreTheirOwn
  <1>3. i \in Named /\ Named \in SUBSET (1..Len(s.remote)) /\ Named \in SUBSET Nat
    BY <1>1
  <1>4. PICK first \in Named : \A k \in Named : first <= k
    <2> HIDE DEF Named
    <2> QED
      BY <1>3, LeastNumber
  <1>5. PICK last \in Named : \A k \in Named : k <= last
    <2> HIDE DEF Named
    <2> QED
      BY <1>1, <1>3, GreatestNumber
  <1>6. IsFirst(r, s)
    <2>1. first \in DOMAIN s.remote /\ s.remote[first] = r
      BY <1>2
    <2>2. ASSUME NEW j \in 1..(first - 1) PROVE Label[s.remote[j].host] # Label[r.host]
      <3>1. j \in DOMAIN s.remote /\ ~(first <= j)
        BY <1>1, <1>3, <2>1
      <3> QED
        BY <1>4, <3>1
    <2> QED
      BY <2>1, <2>2 DEF IsFirst
  <1>7. RemoteAddresses(s)[Label[r.host]] = {r.host}
    <2> DEFINE Last == {k \in DOMAIN s.remote :
                          /\ Label[s.remote[k].host] = Label[r.host]
                          /\ \A j \in DOMAIN s.remote : j > k => Label[s.remote[j].host] # Label[r.host]}
    <2>1. Label[r.host] \in {Label[x.host] : x \in Remotes(s)}
      BY DEF Remotes
    <2>2. RemoteAddresses(s)[Label[r.host]] = {s.remote[k].host : k \in Last}
      BY <2>1 DEF RemoteAddresses
    <2>3. last \in Last
      BY <1>1, <1>3, <1>5
    <2>4. \A k \in Last : s.remote[k] = r
      BY <1>2
    <2> QED
      BY <2>2, <2>3, <2>4
  <1> QED
    BY <1>6, <1>7

\* An update that has the key decides, one that does not is passed over.
LEMMA UpdatedAt ==
  ASSUME NEW f, NEW g, NEW k
  PROVE  /\ k \in DOMAIN g => k \in DOMAIN Updated(f, g) /\ Updated(f, g)[k] = g[k]
         /\ k \notin DOMAIN g /\ k \in DOMAIN f => k \in DOMAIN Updated(f, g) /\ Updated(f, g)[k] = f[k]
  BY DEF Updated

\* The addresses of an endpoint are under its own key.
LEMMA AddressIsFound ==
  ASSUME NamesDiffer, NEW v \in Views, NEW s \in Sources, NEW e \in Endpoints(v, s)
  PROVE  /\ LookupKey(e) \in DOMAIN AddressBook(v, s)
         /\ AddressBook(v, s)[LookupKey(e)] = {Server(e).host}
  <1> DEFINE key == LookupKey(e)
             units == [u \in TopologyUnits(v) |-> {u}]
             lokis == [l \in LokiUpstreams(s) |-> {LokiServer[l].host}]
             receivers == [r \in s.tracing |-> {TracingServer[r].host}]
             workers == Updated(GatherAddressesByRole(v), units)
             logging == Updated(workers, lokis)
             remotes == Updated(logging, RemoteAddresses(s))
  <1>1. AddressBook(v, s) = Updated(remotes, receivers)
    BY DEF AddressBook
  <1>2. ASSUME NEW d \in Endpoints(v, s), d.kind # e.kind PROVE LookupKey(d) # key
    BY <1>2, NamesAreTheirOwn
  <1>3. e.kind # "tracing" => key \notin DOMAIN receivers
    <2> SUFFICES ASSUME e.kind # "tracing", NEW r \in s.tracing PROVE key # r
      OBVIOUS
    <2> DEFINE d == [kind |-> "tracing", name |-> r]
    <2>1. d \in Endpoints(v, s) /\ d.kind # e.kind
      BY EndpointsAre
    <2>2. LookupKey(d) = r
      BY DEF LookupKey, UpstreamName
    <2> QED
      BY <1>2, <2>1, <2>2
  <1>4. e.kind # "remote-write" => key \notin DOMAIN RemoteAddresses(s)
    <2> SUFFICES ASSUME e.kind # "remote-write", NEW i \in DOMAIN s.remote
                 PROVE  key # Label[s.remote[i].host]
      BY DEF RemoteAddresses, Remotes
    <2> DEFINE d == [kind |-> "remote-write", name |-> s.remote[i]]
    <2>1. d \in Endpoints(v, s) /\ d.kind # e.kind
      BY EndpointsAre
    <2>2. LookupKey(d) = Label[s.remote[i].host]
      BY DEF LookupKey, UpstreamName
    <2> QED
      BY <1>2, <2>1, <2>2
  <1>5. e.kind # "logging" => key \notin DOMAIN lokis
    <2> SUFFICES ASSUME e.kind # "logging", NEW l \in LokiUpstreams(s) PROVE key # l
      OBVIOUS
    <2> DEFINE d == [kind |-> "logging", name |-> l]
    <2>1. d \in Endpoints(v, s) /\ d.kind # e.kind
      BY EndpointsAre
    <2>2. LookupKey(d) = l
      BY DEF LookupKey, UpstreamName
    <2> QED
      BY <1>2, <2>1, <2>2
  <1> HIDE DEF remotes, logging, workers
  <1>6. ASSUME NEW u \in TopologyUnits(v), e = [kind |-> "metrics", name |-> u]
        PROVE  key \in DOMAIN AddressBook(v, s) /\ AddressBook(v, s)[key] = {Server(e).host}
    <2>1. key = u /\ Server(e).host = u
      BY <1>6 DEF LookupKey, Server
    <2>2. key \in DOMAIN workers /\ workers[key] = {u}
      BY <2>1, UpdatedAt DEF workers
    <2>3. key \in DOMAIN logging /\ logging[key] = {u}
      BY <1>5, <1>6, <2>2, UpdatedAt DEF logging
    <2>4. key \in DOMAIN remotes /\ remotes[key] = {u}
      BY <1>4, <1>6, <2>3, UpdatedAt DEF remotes
    <2> QED
      BY <1>1, <1>3, <1>6, <2>1, <2>4, UpdatedAt
  <1>7. ASSUME NEW l \in LokiUpstreams(s), e = [kind |-> "logging", name |-> l]
        PROVE  key \in DOMAIN AddressBook(v, s) /\ AddressBook(v, s)[key] = {Server(e).host}
    <2>1. key = l /\ Server(e) = LokiServer[l]
      BY <1>7 DEF LookupKey, Server
    <2>2. key \in DOMAIN logging /\ logging[key] = {LokiServer[l].host}
      BY <2>1, UpdatedAt DEF logging
    <2>3. key \in DOMAIN remotes /\ remotes[key] = {LokiServer[l].host}
      BY <1>4, <1>7, <2>2, UpdatedAt DEF remotes
    <2> QED
      BY <1>1, <1>3, <1>7, <2>1, <2>3, UpdatedAt
  <1>8. ASSUME NEW i \in DOMAIN s.remote, e = [kind |-> "remote-write", name |-> s.remote[i]]
        PROVE  key \in DOMAIN AddressBook(v, s) /\ AddressBook(v, s)[key] = {Server(e).host}
    <2>1. key = Label[s.remote[i].host] /\ Server(e) = s.remote[i]
      BY <1>8 DEF LookupKey, UpstreamName, Server
    <2>2. key \in DOMAIN RemoteAddresses(s)
      BY <2>1 DEF RemoteAddresses, Remotes
    <2>3. key \in DOMAIN remotes /\ remotes[key] = {s.remote[i].host}
      BY <2>1, <2>2, UpdatedAt, RemoteWriteIsFound DEF remotes
    <2> QED
      BY <1>1, <1>3, <1>8, <2>1, <2>3, UpdatedAt
  <1>9. ASSUME NEW r \in s.tracing, e = [kind |-> "tracing", name |-> r]
        PROVE  key \in DOMAIN AddressBook(v, s) /\ AddressBook(v, s)[key] = {Server(e).host}
    <2>1. key = r /\ Server(e) = TracingServer[r]
      BY <1>9 DEF LookupKey, UpstreamName, Server
    <2> QED
      BY <1>1, <2>1, UpdatedAt
  <1> QED
    BY <1>6, <1>7, <1>8, <1>9, EndpointsAre

LEMMA ServerIsServer ==
  ASSUME NEW v \in Views, NEW s \in Sources, NEW e \in Endpoints(v, s)
  PROVE  Server(e) = [host |-> Server(e).host, port |-> Server(e).port]
  <1>1. ASSUME NEW u \in TopologyUnits(v), e = [kind |-> "metrics", name |-> u]
        PROVE  IsServer(Server(e))
    BY <1>1 DEF Server, IsServer
  <1>2. ASSUME NEW l \in LokiUpstreams(s), e = [kind |-> "logging", name |-> l]
        PROVE  IsServer(Server(e))
    BY <1>2, TelemetryAssumption DEF Server, LokiUpstreams
  <1>3. ASSUME NEW i \in DOMAIN s.remote, e = [kind |-> "remote-write", name |-> s.remote[i]]
        PROVE  IsServer(Server(e))
    <2>1. s.remote \in RemoteWrites
      BY DEF Sources
    <2> QED
      BY <1>3, <2>1, TelemetryAssumption DEF Server
  <1>4. ASSUME NEW r \in s.tracing, e = [kind |-> "tracing", name |-> r]
        PROVE  IsServer(Server(e))
    BY <1>4, TelemetryAssumption DEF Server, Sources
  <1> QED
    BY <1>1, <1>2, <1>3, <1>4, EndpointsAre DEF IsServer

\* A request to the path of an endpoint reaches its server and no other.
LEMMA PathLeads ==
  ASSUME NamesDiffer, NEW c, NEW v \in Views, NEW s \in Sources, TopologyUnits(v) # {},
         NEW e \in Endpoints(v, s)
  PROVE  Reaches(ProxyConfig(c, v, s), Path(e)) = {Server(e)}
  <1> DEFINE config == ProxyConfig(c, v, s)
             Upstream(d) == [kind |-> d.kind, name |-> UpstreamName(d),
                             key |-> LookupKey(d), port |-> Server(d).port]
             Serve(u) == {[host |-> h, port |-> u.port] : h \in config.book[u.key]}
             Serving == {u \in config.upstreams :
                           /\ u.key \in DOMAIN config.book
                           /\ \E l \in config.locations : l.path = Path(e) /\ l.backend = u.name}
  <1>1. /\ config.book = AddressBook(v, s)
        /\ config.upstreams = Upstreams(v, s)
        /\ config.locations = Locations(v, s)
    BY DEF ProxyConfig
  <1>2. e.kind = "remote-write" => IsFirst(e.name, s)
    BY EndpointsAre, RemoteWriteIsFound
  <1>3. Upstream(e) \in Upstreams(v, s)
    BY <1>2 DEF Upstreams
  <1>4. \E l \in Locations(v, s) : l.path = Path(e) /\ l.backend = UpstreamName(e)
    <2>1. [path |-> Path(e), backend |-> UpstreamName(e)] \in Locations(v, s)
      BY DEF Locations
    <2> QED
      BY <2>1
  <1>5. /\ LookupKey(e) \in DOMAIN AddressBook(v, s)
        /\ AddressBook(v, s)[LookupKey(e)] = {Server(e).host}
    BY AddressIsFound
  <1>6. Upstream(e) \in Serving
    BY <1>1, <1>3, <1>4, <1>5
  <1>7. ASSUME NEW u \in Serving PROVE u = Upstream(e)
    <2>1. PICK d \in Endpoints(v, s) : u = Upstream(d)
      BY <1>1 DEF Upstreams
    <2>2. PICK f \in Endpoints(v, s) : Path(f) = Path(e) /\ UpstreamName(f) = u.name
      BY <1>1 DEF Locations
    <2>3. UpstreamName(f) = UpstreamName(e)
      BY <2>2 DEF Path
    <2>4. UpstreamName(d) = UpstreamName(e)
      BY <2>1, <2>2, <2>3
    <2> QED
      BY <2>1, <2>4, NamesAreTheirOwn
  <1>8. Serving = {Upstream(e)}
    BY <1>6, <1>7
  <1>9. Serve(Upstream(e)) = {Server(e)}
    BY <1>1, <1>5, ServerIsServer
  <1>10. Reaches(config, Path(e)) = UNION {Serve(u) : u \in Serving}
    BY DEF Reaches
  <1>11. UNION {Serve(u) : u \in Serving} = Serve(Upstream(e))
    <2> HIDE DEF Serve, Serving, Upstream
    <2> QED
      BY <1>8
  <1> QED
    BY <1>9, <1>10, <1>11

-----------------------------------------------------------------------------
(* The URLs. *)

\* Peers that are settled serve what the leader advertises, by the scheme that it names.
LEMMA SettledAgree ==
  ASSUME CoordinatorSafety, TelemetrySafety, Settled, NEW c \in Peers
  PROVE  /\ leader \in Peers /\ Quiet(leader) /\ Now(leader) \in Views
         /\ proxy[c] = ProxyConfig(c, Now(c), sources)
         /\ TopologyUnits(Now(c)) = TopologyUnits(Now(leader))
         /\ Endpoints(Now(c), sources) = Endpoints(Now(leader), sources)
         /\ proxy[c].scheme = Scheme(leader, Now(leader))
  <1> USE DEF CoordinatorSafety, Typed
  <1>1. leader \in Peers /\ \A d \in Peers : Now(d) \in Views
    BY NowTyped DEF TypeOK
  <1>2. \A d \in Peers : Quiet(d) /\ CanHandleEvents(Now(d))
    BY <1>1, SeenAlike DEF Settled
  <1>3. \A d \in Peers : proxy[d] = ProxyConfig(d, Now(d), sources)
    BY <1>2 DEF TelemetrySafety, ProxyInv, ProxyFollows
  <1>4. TopologyUnits(Now(c)) = TopologyUnits(Now(leader))
    BY DEF TopologyUnits, Related, Now
  <1>5. \A d \in Peers : (TLS(d, Now(d)) = NoTLS) <=> ~authority
    <2> SUFFICES ASSUME NEW d \in Peers PROVE (TLS(d, Now(d)) = NoTLS) <=> ~authority
      OBVIOUS
    <2>1. request[d] = Request(d, Now(d))
      BY <1>2 DEF TelemetrySafety, ProxyInv, RequestFollows
    <2>2. authority => request[d] = {Sans(Now(d))} /\ issued[d]
      BY <2>1 DEF Settled, Request, Now
    <2>3. [key |-> d, sans |-> UNION request[d]] # NoTLS
      BY CoordinatorAssumption DEF TypeOK
    <2>4. Now(d).authority = authority /\ Now(d).issued = issued[d] /\ Now(d).request = request[d]
      BY DEF Now
    <2>5. CASE authority
      BY <2>2, <2>3, <2>4, <2>5 DEF TLS
    <2>6. CASE ~authority
      BY <2>4, <2>6 DEF TLS
    <2> QED
      BY <2>5, <2>6 DEF TypeOK
  <1>6. proxy[c].scheme = Scheme(leader, Now(leader))
    <2>1. (TLS(c, Now(c)) = NoTLS) <=> (TLS(leader, Now(leader)) = NoTLS)
      BY <1>1, <1>5
    <2>2. proxy[c] = ProxyConfig(c, Now(c), sources)
      BY <1>3
    <2> QED
      BY <2>1, <2>2 DEF ProxyConfig, Scheme
  <1> QED
    BY <1>1, <1>2, <1>3, <1>4, <1>6 DEF Endpoints

LEMMA SettledLeads ==
  ASSUME NamesDiffer, CoordinatorSafety, TelemetrySafety, Settled, NEW c \in Peers,
         NEW e \in Endpoints(Now(leader), sources), NEW url,
         url.stands_for = e, url.path = Path(e), url.scheme = Scheme(leader, Now(leader))
  PROVE  Leads(c, url)
  <1>1. /\ proxy[c] = ProxyConfig(c, Now(c), sources)
        /\ proxy[c].scheme = Scheme(leader, Now(leader))
        /\ e \in Endpoints(Now(c), sources)
        /\ TopologyUnits(Now(c)) # {}
    BY SettledAgree DEF Settled
  <1>2. Now(c) \in Views /\ sources \in Sources
    BY NowTyped DEF CoordinatorSafety, Typed, TelemetrySafety, TelemetryTyped
  <1>3. Reaches(proxy[c], Path(e)) = {Server(e)}
    BY <1>1, <1>2, PathLeads
  <1> QED
    BY <1>1, <1>3 DEF Leads

\* However the hooks of the units, the certificates and the endpoints overlap and fail: once
\* all is settled every worker app knows a URL for each endpoint, and each URL, whichever
\* unit answers, leads to its endpoint.  Endpoints whose names clash are the only way out.
THEOREM UrlsConverge == ASSUME NamesDiffer PROVE TelemetrySpec => []UrlsLead
  <1>1. CoordinatorSafety /\ TelemetrySafety => UrlsLead
    <2> SUFFICES ASSUME CoordinatorSafety, TelemetrySafety, Settled,
                        NEW a \in Apps, RemoteDataReady(Now(leader), a)
                 PROVE  /\ {url.stands_for : url \in {w \in advertised[a] : Standing(w)}}
                               = {e \in Endpoints(Now(leader), sources) : e.kind # "metrics"}
                        /\ \A url \in advertised[a] : Standing(url) =>
                               \A c \in Peers : Leads(c, url)
      BY DEF UrlsLead
    <2>1. leader \in Peers /\ Quiet(leader) /\ CanHandleEvents(Now(leader))
      BY SettledAgree DEF Settled, CoordinatorSafety, Typed, TypeOK
    <2>2. advertised[a] = ProxyUrls(leader, Now(leader), sources)
      BY <2>1 DEF TelemetrySafety, ProxyInv, AdvertisedHolds
    <2>3. Now(leader) \in Views /\ sources \in Sources
      BY <2>1, NowTyped DEF CoordinatorSafety, Typed, TelemetrySafety, TelemetryTyped
    <2> DEFINE Url(e) == [stands_for |-> e, scheme |-> Scheme(leader, Now(leader)),
                          path |-> Path(e)]
               Proxied == Endpoint("logging", LokiRelated(sources))
                              \cup Endpoint("remote-write", Remotes(sources))
                              \cup Endpoint("tracing", sources.tracing)
    <2>4. advertised[a] = {Url(e) : e \in Proxied}
      BY <2>2 DEF ProxyUrls
    <2>5. \A e \in Proxied : e.kind # "metrics"
      BY DEF Endpoint
    <2>6. \A e \in Endpoints(Now(leader), sources) : e.kind # "metrics" => e \in Proxied
      BY DEF Endpoints, Endpoint, LokiUpstreams, LokiRelated
    <2> HIDE DEF Proxied
    <2>7. {url.stands_for : url \in {w \in advertised[a] : Standing(w)}}
              = {e \in Endpoints(Now(leader), sources) : e.kind # "metrics"}
      <3>1. \A e : Url(e).stands_for = e
        OBVIOUS
      <3> HIDE DEF Url
      <3>2. ASSUME NEW e \in Endpoints(Now(leader), sources), e.kind # "metrics"
            PROVE  Url(e) \in advertised[a] /\ Standing(Url(e)) /\ Url(e).stands_for = e
        BY <2>4, <2>6, <3>1, <3>2 DEF Standing
      <3>3. ASSUME NEW url \in advertised[a], Standing(url)
            PROVE  url.stands_for \in Endpoints(Now(leader), sources) /\ url.stands_for.kind # "metrics"
        BY <2>4, <2>5, <3>1, <3>3 DEF Standing
      <3> QED
        BY <3>2, <3>3
    <2>8. ASSUME NEW url \in advertised[a], Standing(url), NEW c \in Peers PROVE Leads(c, url)
      BY <2>4, <2>8, SettledLeads DEF Standing
    <2> QED
      BY <2>7, <2>8
  <1>2. TelemetrySpec => []CoordinatorSafety
    BY TelemetryImplementsCoordinator, CoordinatorIsSafe, PTL
  <1> QED
    BY <1>1, <1>2, TelemetryIsSafe, PTL

\* And every worker is scraped, through any unit of the coordinator.
THEOREM JobsConverge == ASSUME NamesDiffer PROVE TelemetrySpec => []JobsLead
  <1>1. CoordinatorSafety /\ TelemetrySafety => JobsLead
    <2> SUFFICES ASSUME CoordinatorSafety, TelemetrySafety, Settled
                 PROVE  /\ {job.stands_for : job \in jobs}
                               = Endpoint("metrics", TopologyUnits(Now(leader)))
                        /\ \A job \in jobs : \A c \in Peers : Leads(c, job)
      BY DEF JobsLead
    <2>1. leader \in Peers /\ Quiet(leader) /\ CanHandleEvents(Now(leader))
      BY SettledAgree DEF Settled, CoordinatorSafety, Typed, TypeOK
    <2> DEFINE Url(e) == [stands_for |-> e, scheme |-> Scheme(leader, Now(leader)),
                          path |-> Path(e)]
               Scraped == Endpoint("metrics", TopologyUnits(Now(leader)))
    <2>2. jobs = {Url(e) : e \in Scraped}
      BY <2>1 DEF TelemetrySafety, ProxyInv, AdvertisedHolds, ScrapeJobs
    <2>3. \A e \in Scraped : e \in Endpoints(Now(leader), sources)
      BY DEF Endpoints
    <2> HIDE DEF Scraped
    <2>4. {job.stands_for : job \in jobs} = Scraped
      <3>1. \A e : Url(e).stands_for = e
        OBVIOUS
      <3> HIDE DEF Url
      <3> QED
        BY <2>2, <3>1
    <2>5. ASSUME NEW job \in jobs, NEW c \in Peers PROVE Leads(c, job)
      BY <2>2, <2>3, SettledLeads
    <2> QED
      BY <2>4, <2>5 DEF Scraped
  <1>2. TelemetrySpec => []CoordinatorSafety
    BY TelemetryImplementsCoordinator, CoordinatorIsSafe, PTL
  <1> QED
    BY <1>1, <1>2, TelemetryIsSafe, PTL

-----------------------------------------------------------------------------
(* The roles. *)

\* No update of the address book disturbs a role.
LEMMA RoleKeepsAddresses ==
  ASSUME RolesDiffer, NEW v \in Views, NEW s \in Sources, NEW r \in Roles
  PROVE  /\ r \in DOMAIN AddressBook(v, s)
         /\ AddressBook(v, s)[r] = GatherAddressesByRole(v)[r]
  <1> DEFINE roles == GatherAddressesByRole(v)
             units == [u \in TopologyUnits(v) |-> {u}]
             lokis == [l \in LokiUpstreams(s) |-> {LokiServer[l].host}]
             receivers == [t \in s.tracing |-> {TracingServer[t].host}]
             workers == Updated(roles, units)
             logging == Updated(workers, lokis)
             remotes == Updated(logging, RemoteAddresses(s))
  <1>1. AddressBook(v, s) = Updated(remotes, receivers)
    BY DEF AddressBook
  <1>2. \A e \in Endpoints(v, s) : LookupKey(e) # r
    BY EndpointsArePossible DEF RolesDiffer, Sources
  <1>3. r \notin DOMAIN units
    <2> SUFFICES ASSUME r \in TopologyUnits(v) PROVE FALSE
      OBVIOUS
    <2>1. LookupKey([kind |-> "metrics", name |-> r]) = r
      BY DEF LookupKey
    <2> QED
      BY <1>2, <2>1, EndpointsAre
  <1>4. r \notin DOMAIN lokis
    <2> SUFFICES ASSUME r \in LokiUpstreams(s) PROVE FALSE
      OBVIOUS
    <2>1. LookupKey([kind |-> "logging", name |-> r]) = r
      BY DEF LookupKey
    <2> QED
      BY <1>2, <2>1, EndpointsAre
  <1>5. r \notin DOMAIN RemoteAddresses(s)
    <2> SUFFICES ASSUME NEW i \in DOMAIN s.remote, r = Label[s.remote[i].host] PROVE FALSE
      BY DEF RemoteAddresses, Remotes
    <2>1. LookupKey([kind |-> "remote-write", name |-> s.remote[i]]) = r
      BY DEF LookupKey, UpstreamName
    <2> QED
      BY <1>2, <2>1, EndpointsAre
  <1>6. r \notin DOMAIN receivers
    <2> SUFFICES ASSUME r \in s.tracing PROVE FALSE
      OBVIOUS
    <2>1. LookupKey([kind |-> "tracing", name |-> r]) = r
      BY DEF LookupKey, UpstreamName
    <2> QED
      BY <1>2, <2>1, EndpointsAre
  <1>7. r \in DOMAIN roles
    BY DEF GatherAddressesByRole
  <1> HIDE DEF roles, units, lokis, receivers, workers, logging, remotes
  <1>8. r \in DOMAIN workers /\ workers[r] = roles[r]
    BY <1>3, <1>7, UpdatedAt DEF workers
  <1>9. r \in DOMAIN logging /\ logging[r] = roles[r]
    BY <1>4, <1>8, UpdatedAt DEF logging
  <1>10. r \in DOMAIN remotes /\ remotes[r] = roles[r]
    BY <1>5, <1>9, UpdatedAt DEF remotes
  <1> QED
    BY <1>1, <1>6, <1>10, UpdatedAt DEF roles

\* The nginx of a unit that has nothing left to do routes each role to its workers, whatever
\* telemetry it proxies, unless a remote write has a host that is called like a role.
THEOREM RolesKeepTheirRoutes == ASSUME RolesDiffer PROVE TelemetrySpec => []RolesRouted
  <1>1. CoordinatorSafety /\ TelemetrySafety => RolesRouted
    <2> SUFFICES ASSUME CoordinatorSafety, TelemetrySafety, NEW c \in Peers, Quiet(c),
                        CanHandleEvents(Now(c)), NEW r \in Roles
                 PROVE  /\ r \in DOMAIN proxy[c].book
                        /\ proxy[c].book[r] = GatherAddressesByRole(Now(c))[r]
      BY DEF RolesRouted
    <2>1. proxy[c] = ProxyConfig(c, Now(c), sources)
      BY DEF TelemetrySafety, ProxyInv, ProxyFollows
    <2>2. Now(c) \in Views /\ sources \in Sources
      BY NowTyped DEF CoordinatorSafety, Typed, TelemetrySafety, TelemetryTyped
    <2>3. r \in DOMAIN GatherAddressesByRole(Now(c))
      BY DEF GatherAddressesByRole
    <2> QED
      BY <2>1, <2>2, <2>3, RoleKeepsAddresses DEF ProxyConfig
  <1>2. TelemetrySpec => []CoordinatorSafety
    BY TelemetryImplementsCoordinator, CoordinatorIsSafe, PTL
  <1> QED
    BY <1>1, <1>2, TelemetryIsSafe, PTL

-----------------------------------------------------------------------------
(* The names. *)

\* A remote write is an endpoint, named after its host, and the others are units and receivers.
LEMMA PossibleAre ==
  ASSUME NEW l
  PROVE  /\ \A u \in AllUnits : \E e \in Possible(l) :
               e.kind # "remote-write" /\ e.name = u /\ UpstreamName(e) = Dashed[u]
         /\ \A r \in Receivers : \E e \in Possible(l) :
               e.kind # "remote-write" /\ e.name = r /\ UpstreamName(e) = r
         /\ \A i \in DOMAIN l : \E e \in Possible(l) :
               /\ e.kind = "remote-write" /\ e.name = l[i]
               /\ UpstreamName(e) = Label[l[i].host] /\ LookupKey(e) = Label[l[i].host]
  <1>1. ASSUME NEW u \in AllUnits
        PROVE  \E e \in Possible(l) :
                  e.kind # "remote-write" /\ e.name = u /\ UpstreamName(e) = Dashed[u]
    <2>1. PICK k \in {"metrics", "logging"} : [kind |-> k, name |-> u] \in Possible(l)
      BY DEF AllUnits, Possible, Endpoint
    <2> QED
      BY <2>1 DEF UpstreamName
  <1>2. ASSUME NEW r \in Receivers
        PROVE  \E e \in Possible(l) :
                  e.kind # "remote-write" /\ e.name = r /\ UpstreamName(e) = r
    <2>1. [kind |-> "tracing", name |-> r] \in Possible(l)
      BY DEF Possible, Endpoint
    <2> QED
      BY <2>1 DEF UpstreamName
  <1>3. ASSUME NEW i \in DOMAIN l
        PROVE  \E e \in Possible(l) :
                  /\ e.kind = "remote-write" /\ e.name = l[i]
                  /\ UpstreamName(e) = Label[l[i].host] /\ LookupKey(e) = Label[l[i].host]
    <2>1. [kind |-> "remote-write", name |-> l[i]] \in Possible(l)
      BY DEF Possible, Endpoint
    <2> QED
      BY <2>1 DEF UpstreamName, LookupKey
  <1> QED
    BY <1>1, <1>2, <1>3

\* And there is nothing else.
LEMMA PossibleAreNamed ==
  ASSUME NEW l, NEW e \in Possible(l)
  PROVE  /\ e = [kind |-> e.kind, name |-> e.name]
         /\ \/ /\ e.kind \in {"metrics", "logging"}
               /\ e.name \in IF e.kind = "metrics" THEN Units ELSE LokiUnits
               /\ UpstreamName(e) = Dashed[e.name] /\ LookupKey(e) = e.name
            \/ /\ e.kind = "remote-write" /\ \E i \in DOMAIN l : e.name = l[i]
               /\ UpstreamName(e) = Label[e.name.host] /\ LookupKey(e) = Label[e.name.host]
            \/ /\ e.kind = "tracing" /\ e.name \in Receivers
               /\ UpstreamName(e) = e.name /\ LookupKey(e) = e.name
  <1>1. CASE \E u \in Units : e = [kind |-> "metrics", name |-> u]
    BY <1>1 DEF UpstreamName, LookupKey
  <1>2. CASE \E u \in LokiUnits : e = [kind |-> "logging", name |-> u]
    BY <1>2 DEF UpstreamName, LookupKey
  <1>3. CASE \E i \in DOMAIN l : e = [kind |-> "remote-write", name |-> l[i]]
    BY <1>3 DEF UpstreamName, LookupKey
  <1>4. CASE \E r \in Receivers : e = [kind |-> "tracing", name |-> r]
    BY <1>4 DEF UpstreamName, LookupKey
  <1> QED
    BY <1>1, <1>2, <1>3, <1>4 DEF Possible, Endpoint

\* The endpoints of the proxy have names and keys of their own if, and only if, the hosts of
\* the remote writes do: UrlsConverge and JobsConverge ask nothing else of a deployment.
THEOREM HostsDecideNames == ASSUME UnitsAreNamed PROVE NamesDiffer <=> HostsAreApart
  <1>1. ASSUME HostsAreApart, NEW l \in RemoteWrites,
               NEW d \in Possible(l), NEW e \in Possible(l), d # e
        PROVE  UpstreamName(d) # UpstreamName(e) /\ LookupKey(d) # LookupKey(e)
    <2>1. d.kind # e.kind \/ d.name # e.name
      BY <1>1, PossibleAreNamed
    <2>2. ASSUME NEW x \in Possible(l), NEW y \in Possible(l), x.kind = "remote-write",
                 x.kind # y.kind \/ x.name # y.name
          PROVE  UpstreamName(x) # UpstreamName(y) /\ LookupKey(x) # LookupKey(y)
      <3>1. PICK i \in DOMAIN l :
               x.name = l[i] /\ UpstreamName(x) = Label[l[i].host] /\ LookupKey(x) = Label[l[i].host]
        BY <2>2, PossibleAreNamed
      <3>2. /\ Label[l[i].host] \notin DashedUnits \cup Receivers \cup AllUnits
            /\ \A j \in DOMAIN l : l[i] # l[j] => Label[l[i].host] # Label[l[j].host]
        BY <1>1 DEF HostsAreApart, UnitsAreNamed
      <3>3. CASE y.kind \in {"metrics", "logging"}
        <4>1. UpstreamName(y) \in DashedUnits /\ LookupKey(y) \in AllUnits
          BY <3>3, PossibleAreNamed DEF DashedUnits, AllUnits
        <4> QED
          BY <3>1, <3>2, <4>1
      <3>4. CASE y.kind = "remote-write"
        <4>1. PICK j \in DOMAIN l :
               y.name = l[j] /\ UpstreamName(y) = Label[l[j].host] /\ LookupKey(y) = Label[l[j].host]
          BY <3>4, PossibleAreNamed
        <4> QED
          BY <2>2, <3>1, <3>2, <3>4, <4>1
      <3>5. CASE y.kind = "tracing"
        <4>1. UpstreamName(y) \in Receivers /\ LookupKey(y) \in Receivers
          BY <3>5, PossibleAreNamed
        <4> QED
          BY <3>1, <3>2, <4>1
      <3> QED
        BY <3>3, <3>4, <3>5, PossibleAreNamed
    <2>3. CASE d.kind = "remote-write" \/ e.kind = "remote-write"
      BY <2>1, <2>2, <2>3
    <2>4. CASE d.kind # "remote-write" /\ e.kind # "remote-write"
      BY <2>1, <2>4, PossibleAreNamed DEF UnitsAreNamed, AllUnits, DashedUnits
    <2> QED
      BY <2>3, <2>4
  <1>2. ASSUME NamesDiffer, NEW l \in RemoteWrites, NEW i \in DOMAIN l
        PROVE  /\ Label[l[i].host] \notin DashedUnits \cup Receivers
               /\ \A j \in DOMAIN l : l[i] # l[j] => Label[l[i].host] # Label[l[j].host]
    <2>1. PICK r \in Possible(l) :
             r.kind = "remote-write" /\ r.name = l[i] /\ UpstreamName(r) = Label[l[i].host]
      BY PossibleAre
    <2>2. \A e \in Possible(l) : e # r => UpstreamName(e) # Label[l[i].host]
      BY <1>2, <2>1 DEF NamesDiffer
    <2>3. \A u \in AllUnits : Label[l[i].host] # Dashed[u]
      BY <2>1, <2>2, PossibleAre
    <2>4. \A t \in Receivers : Label[l[i].host] # t
      BY <2>1, <2>2, PossibleAre
    <2>5. \A j \in DOMAIN l : l[i] # l[j] => Label[l[i].host] # Label[l[j].host]
      BY <2>1, <2>2, PossibleAre
    <2> QED
      BY <2>3, <2>4, <2>5 DEF DashedUnits
  <1> QED
    BY <1>1, <1>2 DEF NamesDiffer, HostsAreApart

\* No endpoint takes the addresses of a role if, and only if, no host of a remote write is
\* called like one: RolesKeepTheirRoutes asks nothing else of a deployment.
THEOREM HostsDecideRoles == ASSUME UnitsAreNamed PROVE RolesDiffer <=> HostsAreNoRoles
  <1>1. ASSUME HostsAreNoRoles, NEW l \in RemoteWrites, NEW e \in Possible(l)
        PROVE  LookupKey(e) \notin Roles
    BY <1>1, PossibleAreNamed DEF HostsAreNoRoles, UnitsAreNamed, AllUnits
  <1>2. ASSUME RolesDiffer, NEW l \in RemoteWrites, NEW i \in DOMAIN l
        PROVE  Label[l[i].host] \notin Roles
    BY <1>2, PossibleAre DEF RolesDiffer
  <1> QED
    BY <1>1, <1>2 DEF RolesDiffer, HostsAreNoRoles

-----------------------------------------------------------------------------
(* The correlated datasource. *)

\* Relations, listed or by their ids, that Juju may hand out: no two have the same id.
Distinguished(g) ==
    /\ \A i \in DOMAIN g : g[i].id \in Nat /\ g[i].databag \in Databags \cup {NoDatabag, Invalid}
    /\ \A i, j \in DOMAIN g : g[i].id = g[j].id => i = j

LEMMA PlacesAre ==
  ASSUME NEW g, Distinguished(g), NEW apps, NEW type, NEW uids, NEW p
  PROVE  p \in Places(g, apps, type, uids) <=>
           /\ p = <<p[1], p[2]>>
           /\ p[1] \in DOMAIN g /\ Searched(g[p[1]], apps)
           /\ p[2] \in DOMAIN g[p[1]].databag /\ g[p[1]].databag \in Databags /\ p[2] \in Nat
           /\ g[p[1]].databag[p[2]].type = type
           /\ g[p[1]].databag[p[2]].grafana \in uids
  BY CorrelationAssumption DEF Places, Distinguished, Searched

\* Of the places there are one comes first.
LEMMA OneIsFirst ==
  ASSUME NEW g, Distinguished(g), NEW apps, NEW type, NEW uids, Places(g, apps, type, uids) # {}
  PROVE  \E p \in Places(g, apps, type, uids) :
            \A q \in Places(g, apps, type, uids) \ {p} : Precedes(g, p, q)
  <1> DEFINE places == Places(g, apps, type, uids)
             ids == {g[p[1]].id : p \in places}
  <1>1. \A p \in places : p = <<p[1], p[2]>> /\ p[1] \in DOMAIN g /\ g[p[1]].id \in Nat /\ p[2] \in Nat
    BY PlacesAre DEF Distinguished
  <1> HIDE DEF places
  <1>2. PICK m \in ids : \A n \in ids : m <= n
    <2>1. ids \in SUBSET Nat /\ ids # {}
      BY <1>1 DEF places
    <2> HIDE DEF ids
    <2> QED
      BY <2>1, LeastNumber
  <1> DEFINE own == {p[2] : p \in {q \in places : g[q[1]].id = m}}
  <1>3. PICK k \in own : \A n \in own : k <= n
    <2>1. own \in SUBSET Nat /\ own # {}
      BY <1>1, <1>2
    <2> HIDE DEF own
    <2> QED
      BY <2>1, LeastNumber
  <1>4. PICK p \in places : g[p[1]].id = m /\ p[2] = k
    BY <1>3
  <1>5. ASSUME NEW q \in places, q # p PROVE Precedes(g, p, q)
    <2>1. m \in Nat /\ k \in Nat /\ g[q[1]].id \in Nat /\ q[2] \in Nat
      BY <1>1, <1>4
    <2>2. m <= g[q[1]].id
      BY <1>2
    <2>3. CASE g[q[1]].id = m
      <3>1. q[1] = p[1]
        BY <1>1, <1>4, <2>3 DEF Distinguished
      <3>2. q[2] # p[2] /\ k <= q[2]
        BY <1>1, <1>3, <1>5, <2>3, <3>1
      <3> QED
        BY <1>4, <2>1, <2>3, <3>2 DEF Precedes
    <2>4. CASE g[q[1]].id # m
      BY <1>4, <2>1, <2>2, <2>4 DEF Precedes
    <2> QED
      BY <2>3, <2>4
  <1> QED
    BY <1>4, <1>5 DEF places

\* It is the one whose datasource is found.
LEMMA FirstIsFound ==
  ASSUME NEW g, Distinguished(g), NEW apps, NEW type, NEW uids,
         NEW p \in Places(g, apps, type, uids),
         \A q \in Places(g, apps, type, uids) \ {p} : Precedes(g, p, q)
  PROVE  FindCorrelated(g, apps, type, uids) = g[p[1]].databag[p[2]]
  <1> DEFINE places == Places(g, apps, type, uids)
             IsFirstPlace(r) == \A q \in places \ {r} : Precedes(g, r, q)
             first == CHOOSE r \in places : IsFirstPlace(r)
  <1>1. \A r \in places : r[1] \in DOMAIN g /\ g[r[1]].id \in Nat /\ r[2] \in Nat
    BY PlacesAre DEF Distinguished
  <1>2. ASSUME NEW r \in places, IsFirstPlace(r) PROVE r = p
    <2>1. SUFFICES ASSUME r # p PROVE FALSE
      OBVIOUS
    <2>2. Precedes(g, r, p) /\ Precedes(g, p, r)
      BY <1>2, <2>1
    <2> HIDE DEF places
    <2> QED
      BY <1>1, <2>2 DEF Precedes, places
  <1>3. first = p
    <2> HIDE DEF places, IsFirstPlace
    <2>1. p \in places /\ IsFirstPlace(p)
      BY DEF places, IsFirstPlace
    <2> QED
      BY <1>2, <2>1
  <1> QED
    BY <1>3 DEF FindCorrelated

\* What is found is a datasource, and nothing only if there is none.
LEMMA FoundIsListed ==
  ASSUME NEW g, Distinguished(g), NEW apps, NEW type, NEW uids
  PROVE  LET ds == FindCorrelated(g, apps, type, uids) IN
         /\ Places(g, apps, type, uids) = {} => ds = NoDatasource
         /\ Places(g, apps, type, uids) # {} =>
                /\ ds # NoDatasource
                /\ \E p \in Places(g, apps, type, uids) : ds = g[p[1]].databag[p[2]]
  <1>1. Places(g, apps, type, uids) = {} => FindCorrelated(g, apps, type, uids) = NoDatasource
    BY DEF FindCorrelated
  <1>2. ASSUME Places(g, apps, type, uids) # {}
        PROVE  \E p \in Places(g, apps, type, uids) :
                  FindCorrelated(g, apps, type, uids) = g[p[1]].databag[p[2]]
    BY <1>2, OneIsFirst, FirstIsFound
  <1>3. \A p \in Places(g, apps, type, uids) : g[p[1]].databag[p[2]] \in Datasources
    BY PlacesAre DEF Datasources
  <1> QED
    BY <1>1, <1>2, <1>3, CorrelationAssumption

\* The same relations, some of them under other places, give the same datasource: p is
\* where each of them is in h.
LEMMA ListingIsNoMatter ==
  ASSUME NEW g, NEW h, Distinguished(g), Distinguished(h), NEW p \in [DOMAIN g -> DOMAIN h],
         \A i \in DOMAIN g : g[i] = h[p[i]],
         \A d \in DOMAIN h : \E i \in DOMAIN g : p[i] = d,
         NEW apps, NEW type, NEW uids
  PROVE  FindCorrelated(g, apps, type, uids) = FindCorrelated(h, apps, type, uids)
  <1> DEFINE there == Places(g, apps, type, uids)
             here == Places(h, apps, type, uids)
  <1>1. ASSUME NEW q \in there PROVE <<p[q[1]], q[2]>> \in here
    BY <1>1, PlacesAre
  <1>2. ASSUME NEW i \in DOMAIN g, NEW k, <<p[i], k>> \in here PROVE <<i, k>> \in there
    BY <1>2, PlacesAre
  <1>3. CASE here = {}
    <2>1. there = {}
      BY <1>1, <1>3
    <2> QED
      BY <1>3, <2>1, FoundIsListed
  <1>4. CASE here # {}
    <2>1. PICK f \in here : \A q \in here \ {f} : Precedes(h, f, q)
      BY <1>4, OneIsFirst
    <2>2. f = <<f[1], f[2]>> /\ f[1] \in DOMAIN h
      BY PlacesAre
    <2>3. PICK i \in DOMAIN g : p[i] = f[1]
      BY <2>2
    <2>4. <<i, f[2]>> \in there
      BY <1>2, <2>2, <2>3
    <2>5. ASSUME NEW q \in there, q # <<i, f[2]>> PROVE Precedes(g, <<i, f[2]>>, q)
      <3>1. q = <<q[1], q[2]>> /\ q[1] \in DOMAIN g
        BY PlacesAre
      <3>2. <<p[q[1]], q[2]>> \in here
        BY <1>1
      <3>3. <<p[q[1]], q[2]>> # f
        <4>1. SUFFICES ASSUME p[q[1]] = f[1], q[2] = f[2] PROVE FALSE
          BY <2>2
        <4>2. g[q[1]] = g[i]
          BY <2>3, <3>1, <4>1
        <4>3. q[1] = i
          BY <3>1, <4>2 DEF Distinguished
        <4> QED
          BY <2>5, <3>1, <4>1, <4>3
      <3>4. Precedes(h, f, <<p[q[1]], q[2]>>)
        BY <2>1, <3>2, <3>3
      <3> QED
        BY <2>3, <3>1, <3>4 DEF Precedes
    <2>6. FindCorrelated(h, apps, type, uids) = h[f[1]].databag[f[2]]
      BY <2>1, FirstIsFound
    <2>7. FindCorrelated(g, apps, type, uids) = g[i].databag[f[2]]
      <3>1. FindCorrelated(g, apps, type, uids) = g[(<<i, f[2]>>)[1]].databag[(<<i, f[2]>>)[2]]
        <4> DEFINE r == <<i, f[2]>>
        <4>1. r \in there /\ \A q \in there \ {r} : Precedes(g, r, q)
          BY <2>4, <2>5
        <4> HIDE DEF r
        <4>2. FindCorrelated(g, apps, type, uids) = g[r[1]].databag[r[2]]
          BY <4>1, FirstIsFound
        <4> QED
          BY <4>2 DEF r
      <3> QED
        BY <3>1
    <2> QED
      BY <2>3, <2>6, <2>7
  <1> QED
    BY <1>3, <1>4

LEMMA ExchangesAre ==
  ASSUME NEW f
  PROVE  f \in Exchanges <=>
           /\ DOMAIN f \subseteq Ids
           /\ f = [i \in DOMAIN f |-> [id |-> i, app |-> f[i].app, databag |-> f[i].databag]]
           /\ \A i \in DOMAIN f : /\ f[i].app \in ExchangeApps
                                  /\ f[i].databag \in Databags \cup {NoDatabag, Invalid}
  <1>1. ASSUME f \in Exchanges
        PROVE  /\ DOMAIN f \subseteq Ids
               /\ f = [i \in DOMAIN f |-> [id |-> i, app |-> f[i].app, databag |-> f[i].databag]]
               /\ \A i \in DOMAIN f : /\ f[i].app \in ExchangeApps
                                      /\ f[i].databag \in Databags \cup {NoDatabag, Invalid}
    <2> DEFINE Given(I, x) == [i \in I |-> [id |-> i, app |-> x[i].app, databag |-> x[i].databag]]
    <2>1. PICK I \in SUBSET Ids : \E x \in [I -> Exchanged] : f = Given(I, x)
      BY <1>1 DEF Exchanges
    <2>2. PICK x \in [I -> Exchanged] : f = Given(I, x)
      BY <2>1
    <2> QED
      BY <2>2 DEF Exchanged
  <1>2. ASSUME DOMAIN f \subseteq Ids,
               f = [i \in DOMAIN f |-> [id |-> i, app |-> f[i].app, databag |-> f[i].databag]],
               \A i \in DOMAIN f : /\ f[i].app \in ExchangeApps
                                   /\ f[i].databag \in Databags \cup {NoDatabag, Invalid}
        PROVE  f \in Exchanges
    <2> DEFINE x == [i \in DOMAIN f |-> [app |-> f[i].app, databag |-> f[i].databag]]
    <2>1. x \in [DOMAIN f -> Exchanged]
      BY <1>2 DEF Exchanged
    <2>2. f = [i \in DOMAIN f |-> [id |-> i, app |-> x[i].app, databag |-> x[i].databag]]
      BY <1>2
    <2> HIDE DEF x
    <2> QED
      BY <1>2, <2>1, <2>2 DEF Exchanges
  <1> QED
    BY <1>1, <1>2

LEMMA ExchangesAreRelated ==
  ASSUME NEW f \in Exchanges
  PROVE  Distinguished(f) /\ IsFiniteSet(DOMAIN f) /\ \A i \in DOMAIN f : f[i].id = i
  <1>1. DOMAIN f \subseteq Ids /\ IsFiniteSet(DOMAIN f)
    BY ExchangesAre, FS_Subset, CorrelationAssumption
  <1>2. \A i \in DOMAIN f : f[i].id = i
    BY ExchangesAre
  <1> QED
    BY <1>1, <1>2, ExchangesAre, CorrelationAssumption DEF Distinguished

\* In whichever order the relations are listed, the same datasource is found.
LEMMA OneIsFound ==
  ASSUME NEW f \in Exchanges, NEW apps, NEW type, NEW uids
  PROVE  Found(f, apps, type, uids) = {FindCorrelated(f, apps, type, uids)}
  <1> DEFINE n == Cardinality(DOMAIN f)
             P == {q \in [1..n -> DOMAIN f] : \A i, j \in 1..n : q[i] = q[j] => i = j}
             L(p) == [i \in 1..n |-> f[p[i]]]
  <1>1. Listings(f) = {L(p) : p \in P}
    BY DEF Listings
  <1>2. n \in Nat /\ IsFiniteSet(1..n) /\ Cardinality(1..n) = n
    BY ExchangesAreRelated, FS_CardinalityType, FS_Interval
  <1>3. P # {}
    <2>1. PICK p : p \in Bijection(1..n, DOMAIN f)
      BY ExchangesAreRelated, FS_CardinalityType DEF ExistsBijection
    <2> QED
      BY <2>1 DEF Bijection, Injection, IsInjective
  <1>4. ASSUME NEW p \in P
        PROVE  FindCorrelated(L(p), apps, type, uids) = FindCorrelated(f, apps, type, uids)
    <2> DEFINE l == L(p)
    <2>1. \A d \in DOMAIN f : \E i \in 1..n : p[i] = d
      <3>1. p \in Injection(1..n, DOMAIN f)
        BY DEF Injection, IsInjective
      <3>2. p \in Surjection(1..n, DOMAIN f)
        BY <1>2, <3>1, ExchangesAreRelated, FS_Injection
      <3> QED
        BY <3>2 DEF Surjection
    <2>2. DOMAIN l = 1..n /\ \A i \in 1..n : l[i] = f[p[i]] /\ p[i] \in DOMAIN f
      OBVIOUS
    <2>3. \A i, j \in 1..n : p[i] = p[j] => i = j
      OBVIOUS
    <2> HIDE DEF l
    <2>4. Distinguished(l)
      BY <2>2, <2>3, ExchangesAreRelated DEF Distinguished
    <2> HIDE DEF P
    <2>5. p \in [DOMAIN l -> DOMAIN f]
      BY <2>2 DEF P
    <2>6. /\ \A i \in DOMAIN l : l[i] = f[p[i]]
          /\ \A d \in DOMAIN f : \E i \in DOMAIN l : p[i] = d
      BY <2>1, <2>2
    <2> HIDE DEF n
    <2>7. FindCorrelated(l, apps, type, uids) = FindCorrelated(f, apps, type, uids)
      <3>1. Distinguished(f)
        BY ExchangesAreRelated
      <3> QED
        BY <2>4, <2>5, <2>6, <3>1, ListingIsNoMatter
    <2> QED
      BY <2>7 DEF l
  <1> HIDE DEF P, L
  <1> QED
    BY <1>1, <1>3, <1>4 DEF Found

LEMMA EligibleAre ==
  ASSUME NEW f \in Exchanges, NEW apps, NEW type, NEW uids
  PROVE  Eligible({f[i] : i \in DOMAIN f}, apps, type, uids)
           = {f[p[1]].databag[p[2]] : p \in Places(f, apps, type, uids)}
  <1> DEFINE places == Places(f, apps, type, uids)
             eligible == Eligible({f[i] : i \in DOMAIN f}, apps, type, uids)
  <1>1. ASSUME NEW ds \in eligible PROVE \E p \in places : ds = f[p[1]].databag[p[2]]
    <2>1. PICK i \in DOMAIN f : /\ f[i].databag \notin {NoDatabag, Invalid}
                                /\ apps = NoFilter \/ f[i].app \in apps
                                /\ \E k \in DOMAIN f[i].databag : ds = f[i].databag[k]
      BY <1>1 DEF Eligible
    <2>2. PICK k \in DOMAIN f[i].databag : ds = f[i].databag[k]
      BY <2>1
    <2>3. ds.type = type /\ ds.grafana \in uids
      BY <1>1 DEF Eligible
    <2>4. <<i, k>> \in places
      BY <2>1, <2>2, <2>3 DEF Places, Searched
    <2> QED
      BY <2>2, <2>4
  <1>2. ASSUME NEW p \in places PROVE f[p[1]].databag[p[2]] \in eligible
    BY <1>2 DEF Places, Searched, Eligible
  <1> QED
    BY <1>1, <1>2

LEMMA OlderIsExchanged ==
  ASSUME NEW f \in Exchanges, NEW n \in Ids
  PROVE  /\ Older(f, n) \in Exchanges
         /\ DOMAIN Older(f, n) \subseteq DOMAIN f
         /\ \A i \in DOMAIN Older(f, n) : Older(f, n)[i] = f[i] /\ i < n
         /\ \A i \in DOMAIN f : i < n => i \in DOMAIN Older(f, n)
  <1> DEFINE o == Older(f, n)
  <1>1. /\ DOMAIN o \subseteq DOMAIN f
        /\ \A i \in DOMAIN o : o[i] = f[i] /\ i < n
        /\ \A i \in DOMAIN f : i < n => i \in DOMAIN o
    BY DEF Older
  <1>2. Older(f, n) \in Exchanges
    <2>1. o = [i \in DOMAIN o |-> [id |-> i, app |-> o[i].app, databag |-> o[i].databag]]
      <3>1. \A i \in DOMAIN o : o[i] = [id |-> i, app |-> o[i].app, databag |-> o[i].databag]
        BY <1>1, ExchangesAre
      <3>2. o = [i \in DOMAIN o |-> o[i]]
        BY DEF Older
      <3> HIDE DEF o
      <3> QED
        BY <3>1, <3>2
    <2>2. DOMAIN o \subseteq Ids
      BY <1>1, ExchangesAre
    <2>3. \A i \in DOMAIN o : /\ o[i].app \in ExchangeApps
                              /\ o[i].databag \in Databags \cup {NoDatabag, Invalid}
      BY <1>1, ExchangesAre
    <2> HIDE DEF o
    <2>4. o \in Exchanges
      BY <2>1, <2>2, <2>3, ExchangesAre
    <2> QED
      BY <2>4 DEF o
  <1> QED
    BY <1>1, <1>2

\* Relations that come later do not displace what was found.
LEMMA OlderIsKept ==
  ASSUME NEW f \in Exchanges, NEW n \in Ids, NEW apps, NEW type, NEW uids,
         FindCorrelated(Older(f, n), apps, type, uids) # NoDatasource
  PROVE  FindCorrelated(f, apps, type, uids) = FindCorrelated(Older(f, n), apps, type, uids)
  <1> DEFINE o == Older(f, n)
  <1>1. /\ DOMAIN o \subseteq DOMAIN f
        /\ \A i \in DOMAIN o : o[i] = f[i] /\ i < n
        /\ \A i \in DOMAIN f : i < n => i \in DOMAIN o
    BY OlderIsExchanged
  <1>2. DOMAIN f \subseteq Nat /\ n \in Nat
    BY ExchangesAre, CorrelationAssumption
  <1>3. o \in Exchanges
    BY OlderIsExchanged
  <1> HIDE DEF o
  <1>4. Distinguished(o) /\ Distinguished(f) /\ \A i \in DOMAIN f : f[i].id = i
    BY <1>3, ExchangesAreRelated
  <1>5. Places(o, apps, type, uids) # {}
    BY <1>4, FoundIsListed DEF o
  <1>6. PICK p \in Places(o, apps, type, uids) :
           \A q \in Places(o, apps, type, uids) \ {p} : Precedes(o, p, q)
    BY <1>4, <1>5, OneIsFirst
  <1>7. p[1] \in DOMAIN o /\ p = <<p[1], p[2]>>
    BY <1>4, PlacesAre
  <1>8. p \in Places(f, apps, type, uids)
    BY <1>1, <1>4, <1>7, PlacesAre
  <1>9. ASSUME NEW q \in Places(f, apps, type, uids), q # p PROVE Precedes(f, p, q)
    <2>1. q[1] \in DOMAIN f
      BY <1>4, PlacesAre
    <2>2. CASE q[1] < n
      <3>1. q[1] \in DOMAIN o
        BY <1>1, <2>1, <2>2
      <3>2. q \in Places(o, apps, type, uids)
        BY <1>1, <1>4, <3>1, PlacesAre
      <3>3. Precedes(o, p, q)
        BY <1>6, <1>9, <3>2
      <3> QED
        BY <1>1, <1>7, <3>1, <3>3 DEF Precedes
    <2>3. CASE ~(q[1] < n)
      BY <1>1, <1>2, <1>4, <1>7, <2>1, <2>3 DEF Precedes
    <2> QED
      BY <2>2, <2>3
  <1>10. FindCorrelated(f, apps, type, uids) = f[p[1]].databag[p[2]]
    BY <1>4, <1>8, <1>9, FirstIsFound
  <1>11. FindCorrelated(o, apps, type, uids) = o[p[1]].databag[p[2]]
    BY <1>4, <1>6, FirstIsFound
  <1> QED
    BY <1>1, <1>7, <1>10, <1>11 DEF o

\* Whatever the search is narrowed to.
LEMMA SearchesAreStable ==
  ASSUME NEW apps
  PROVE  Stable(apps)
  <1> SUFFICES ASSUME NEW f \in Exchanges, NEW type \in Types, NEW uids \in SUBSET Grafanas
               PROVE  LET found    == Found(f, apps, type, uids)
                          eligible == Eligible({f[i] : i \in DOMAIN f}, apps, type, uids)
                      IN /\ IF eligible = {} THEN found = {NoDatasource}
                                             ELSE \E ds \in eligible : found = {ds}
                         /\ \A n \in Ids :
                               LET before == Found(Older(f, n), apps, type, uids)
                               IN before # {NoDatasource} => found = before
    BY DEF Stable
  <1> DEFINE found    == Found(f, apps, type, uids)
             eligible == Eligible({f[i] : i \in DOMAIN f}, apps, type, uids)
  <1>1. found = {FindCorrelated(f, apps, type, uids)}
    BY OneIsFound
  <1>2. IF eligible = {} THEN found = {NoDatasource} ELSE \E ds \in eligible : found = {ds}
    <2> DEFINE places == Places(f, apps, type, uids)
    <2>1. eligible = {f[p[1]].databag[p[2]] : p \in places}
      BY EligibleAre
    <2>2. Distinguished(f)
      BY ExchangesAreRelated
    <2>3. CASE places = {}
      <3>1. eligible = {} /\ found = {NoDatasource}
        BY <1>1, <2>1, <2>2, <2>3, FoundIsListed
      <3> QED
        BY <3>1
    <2>4. CASE places # {}
      <3>1. PICK p \in places : FindCorrelated(f, apps, type, uids) = f[p[1]].databag[p[2]]
        BY <2>2, <2>4, FoundIsListed
      <3> HIDE DEF eligible, found
      <3>2. f[p[1]].databag[p[2]] \in eligible
        BY <2>1
      <3> QED
        BY <1>1, <3>1, <3>2
    <2> QED
      BY <2>3, <2>4
  <1>3. ASSUME NEW n \in Ids, Found(Older(f, n), apps, type, uids) # {NoDatasource}
        PROVE  found = Found(Older(f, n), apps, type, uids)
    <2>1. Older(f, n) \in Exchanges
      BY OlderIsExchanged
    <2>2. Found(Older(f, n), apps, type, uids) = {FindCorrelated(Older(f, n), apps, type, uids)}
      BY <2>1, OneIsFound
    <2> QED
      BY <1>1, <1>3, <2>2, OlderIsKept
  <1> QED
    BY <1>2, <1>3

\* find_correlated_datasource finds a datasource whenever one is eligible, the same one in
\* whichever order Juju lists the relations, and keeps to it when newer relations come: for
\* any number of relations, databags of any length and every narrowing of the search.
THEOREM CorrelationKeeps == TelemetrySpec => []CorrelationIsStable
  <1>1. CorrelationIsStable
    <2>1. \A apps \in (SUBSET ExchangeApps) \cup {NoFilter} : apps \in StableSearches
      BY SearchesAreStable DEF StableSearches
    <2>2. {LokiApp[l] : l \in LokiRelated(sources)} \in SUBSET ExchangeApps
      BY TelemetryAssumption DEF LokiRelated
    <2> DEFINE listed == {LokiApp[l] : l \in LokiRelated(sources)}
    <2>3. listed \in StableSearches /\ NoFilter \in StableSearches
      BY <2>1, <2>2
    <2> HIDE DEF listed
    <2>4. {NoFilter, listed} \subseteq StableSearches
      BY <2>3
    <2> QED
      BY <2>4 DEF CorrelationIsStable, listed
  <1> QED
    BY <1>1, PTL
=============================================================================
