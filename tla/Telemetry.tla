------------------------------ MODULE Telemetry ------------------------------
(***************************************************************************)
(* The worker telemetry proxy: the coordinator tells its workers and       *)
(* Prometheus URLs of its own, of one host name that any of its units      *)
(* answers to, and each unit's nginx is to lead them to the endpoints they *)
(* stand for.                                                              *)
(*                                                                         *)
(* The steps are those of Coordinator, with what they do with the          *)
(* endpoints that telemetry is sent to, and the changes of these, each of  *)
(* which queues an event at every unit.                                    *)
(***************************************************************************)
EXTENDS Coordinator, TelemetryCorrelation, Sequences

CONSTANTS
    LokiUnits,      \* the units that may be related over the logging endpoint
    RemoteWrites,   \* what the charm's remote_write_endpoints may return: lists of servers
    Receivers,      \* pairs of "charm-tracing" or "workload-tracing" and a protocol
    LokiApp,        \* the application of each Loki unit
    LokiServer,     \* for each Loki unit the server in its URL: host and port
    TracingServer,  \* for each receiver the server in its URL
    Dashed,         \* for each unit the name that unit.replace("/", "-") gives
    Label,          \* for each host of a remote write the name _sanitize_hostname gives
    Changes         \* how often the surroundings may change (a bound for TLC)

\* What the URLs of an endpoint are read for.
IsServer(x) == x = [host |-> x.host, port |-> x.port]

\* _validate_proxy_worker_telemetry_setup raises for grpc among the workload protocols.
ASSUME TelemetryAssumption ==
    /\ RemoteWrites \subseteq Seq(UNION {{l[i] : i \in DOMAIN l} : l \in RemoteWrites})
    /\ \A l \in RemoteWrites : \A i \in DOMAIN l : IsServer(l[i]) /\ l[i].host \in DOMAIN Label
    /\ \A l \in LokiUnits : IsServer(LokiServer[l])
    /\ \A r \in Receivers : IsServer(TracingServer[r])
    /\ Units \cup LokiUnits \subseteq DOMAIN Dashed
    /\ LokiUnits = DOMAIN LokiServer /\ LokiApp \in [LokiUnits -> ExchangeApps]
    /\ Receivers = DOMAIN TracingServer
    /\ \A r \in Receivers : r[1] \in {"charm-tracing", "workload-tracing"} /\ r[2] # "otlp_grpc"
    /\ Changes \in Nat

VARIABLES
    sources,    \* the endpoints that are related: logging, remote write and tracing
    changes,    \* how many changes the surroundings may still make
    heard,      \* for each peer the sources its hook has read
    proxy,      \* for each peer the telemetry part of what its nginx runs with
    advertised, \* for each worker app the URLs in its databag
    jobs        \* the scrape jobs of the workers, as Prometheus gets them

proxyVars == <<sources, heard, proxy, advertised, jobs>>
telemetryVars == <<vars, proxyVars, changes>>

-----------------------------------------------------------------------------
(* What there is to send telemetry to, and from: an endpoint is its kind and its name,
   the unit for metrics and logging, the server for remote writes, the receiver for
   tracing.  v is a view of Coordinator, s the sources. *)

Endpoint(kind, names) == {[kind |-> kind, name |-> n] : n \in names}

\* gather_topology: the units that are scraped.
TopologyUnits(v) == UNION {v.cluster[a].published : a \in Related(v)}

\* _upstream_loki_endpoints_by_unit passes over a unit that has not published its URL.
LokiUpstreams(s) == {l \in LokiUnits : s.logging[l] = "ready"}
LokiRelated(s) == {l \in LokiUnits : s.logging[l] # "absent"}

Remotes(s) == {s.remote[i] : i \in DOMAIN s.remote}

Endpoints(v, s) ==
    Endpoint("metrics", TopologyUnits(v)) \cup Endpoint("logging", LokiUpstreams(s))
        \cup Endpoint("remote-write", Remotes(s)) \cup Endpoint("tracing", s.tracing)

\* The server that an endpoint stands for.
Server(e) ==
    CASE e.kind = "metrics"      -> [host |-> e.name, port |-> "worker_metrics_port"]
      [] e.kind = "logging"      -> LokiServer[e.name]
      [] e.kind = "remote-write" -> e.name
      [] e.kind = "tracing"      -> TracingServer[e.name]

\* The names of upstreams and paths are made of the unit, the host or the receiver.
UpstreamName(e) ==
    CASE e.kind \in {"metrics", "logging"} -> Dashed[e.name]
      [] e.kind = "remote-write"           -> Label[e.name.host]
      [] e.kind = "tracing"                -> e.name

\* Mutant: a Loki upstream is looked up by the name in its path.
LookupKey_dashed(e) == UpstreamName(e)

\* upstream_lookup_key
LookupKey(e) == IF e.kind \in {"metrics", "logging"} THEN e.name ELSE UpstreamName(e)

\* PROXY_WORKER_TELEMETRY_PATHS
Path(e) == <<e.kind, UpstreamName(e)>>

\* The first of the remote writes with its name makes the upstream.
IsFirst(r, s) ==
    \E i \in DOMAIN s.remote :
        /\ s.remote[i] = r
        /\ \A j \in 1..(i - 1) : Label[s.remote[j].host] # Label[r.host]

\* Of two entries of a dictionary with the same key the later one stays.
Updated(f, g) == [k \in DOMAIN f \cup DOMAIN g |-> IF k \in DOMAIN g THEN g[k] ELSE f[k]]

\* The last of the remote writes with its name gives the address.
RemoteAddresses(s) ==
    [n \in {Label[r.host] : r \in Remotes(s)} |->
        {s.remote[i].host : i \in {k \in DOMAIN s.remote :
            /\ Label[s.remote[k].host] = n
            /\ \A j \in DOMAIN s.remote : j > k => Label[s.remote[j].host] # n}}]

\* get_upstreams_to_addresses, on top of the addresses by role.
AddressBook(v, s) ==
    LET workers == Updated(GatherAddressesByRole(v), [u \in TopologyUnits(v) |-> {u}])
        logging == Updated(workers, [l \in LokiUpstreams(s) |-> {LokiServer[l].host}])
        remotes == Updated(logging, RemoteAddresses(s))
    IN Updated(remotes, [r \in s.tracing |-> {TracingServer[r].host}])

\* get_nginx_upstreams_and_locations.  Only duplicates of one kind are left out.
Upstreams(v, s) ==
    {[kind |-> e.kind, name |-> UpstreamName(e), key |-> LookupKey(e), port |-> Server(e).port] :
        e \in {d \in Endpoints(v, s) : d.kind = "remote-write" => IsFirst(d.name, s)}}

Locations(v, s) == {[path |-> Path(e), backend |-> UpstreamName(e)] : e \in Endpoints(v, s)}

\* Mutant: plain http, whatever the certificate.
Scheme_plain(c, v) == "http"

\* tls_available chooses the scheme of the URLs, and the port in them.
Scheme(c, v) == IF TLS(c, v) = NoTLS THEN "http" ELSE "https"

\* _inject_worker_telemetry_config: nothing is injected when no worker has published.
ProxyConfig(c, v, s) ==
    [scheme    |-> IF TLS(c, v) = NoTLS THEN "http" ELSE "https",
     book      |-> IF TopologyUnits(v) = {} THEN GatherAddressesByRole(v) ELSE AddressBook(v, s),
     upstreams |-> IF TopologyUnits(v) = {} THEN {} ELSE Upstreams(v, s),
     locations |-> IF TopologyUnits(v) = {} THEN {} ELSE Locations(v, s)]

\* nginx without a config.
NoProxy == [scheme |-> "none", book |-> [k \in {} |-> {}], upstreams |-> {}, locations |-> {}]

\* The URLs of publish_data: proxy_loki_endpoints_by_unit, which asks for no URL of the unit,
\* proxy_remote_write_endpoints and proxy_tracing_receivers_urls.  The host is the same
\* for all units of the coordinator.
ProxyUrls(c, v, s) ==
    {[stands_for |-> e, scheme |-> Scheme(c, v), path |-> Path(e)] :
        e \in Endpoint("logging", LokiRelated(s)) \cup Endpoint("remote-write", Remotes(s))
                \cup Endpoint("tracing", s.tracing)}

\* _workers_scrape_jobs
ScrapeJobs(c, v) ==
    {[stands_for |-> e, scheme |-> Scheme(c, v), path |-> Path(e)] :
        e \in Endpoint("metrics", TopologyUnits(v))}

-----------------------------------------------------------------------------
Sources == [logging: [LokiUnits -> {"absent", "joined", "ready"}],
            remote: RemoteWrites, tracing: SUBSET Receivers]

TelemetryInit ==
    /\ Init
    /\ sources \in Sources
    /\ changes = Changes
    /\ heard = [c \in Peers |-> NoView]
    /\ proxy = [c \in Peers |-> NoProxy]
    /\ advertised = [a \in Apps |-> {}]
    /\ jobs = {}

(* The surroundings. *)

Change == changes > 0 /\ changes' = changes - 1

SourcesChange(s) ==
    /\ OtherRelationChanges
    /\ sources' = s
    /\ Change
    /\ UNCHANGED <<heard, proxy, advertised, jobs>>

\* A Loki unit joins, publishes its URL, and departs.
LokiJoins(l) ==
    sources.logging[l] = "absent" /\ SourcesChange([sources EXCEPT !.logging[l] = "joined"])
LokiPublishes(l) ==
    sources.logging[l] = "joined" /\ SourcesChange([sources EXCEPT !.logging[l] = "ready"])
LokiDeparts(l) ==
    sources.logging[l] # "absent" /\ SourcesChange([sources EXCEPT !.logging[l] = "absent"])

RemoteWriteChanges ==
    \E l \in RemoteWrites \ {sources.remote} : SourcesChange([sources EXCEPT !.remote = l])

TracingChanges(r) ==
    SourcesChange([sources EXCEPT !.tracing = IF r \in @ THEN @ \ {r} ELSE @ \cup {r}])

\* What surrounds the coordinator otherwise.  Databags go with their relation.
OtherChanges ==
    /\ \/ \E a \in Apps : RemoveRelation(a)
       \/ \E u \in Units : UnitDeparts(u)
       \/ S3Changes \/ AuthorityChanges
       \/ \E c \in Peers : ElectLeader(c)
    /\ Change
    /\ advertised' = [a \in Apps |-> IF cluster'[a] = NoRelation THEN {} ELSE advertised[a]]
    /\ UNCHANGED <<sources, heard, proxy, jobs>>

\* The config of nginx goes with its container.
NginxStartsAnew(c) ==
    /\ NginxRestarts(c)
    /\ Change
    /\ proxy' = [proxy EXCEPT ![c] = NoProxy]
    /\ UNCHANGED <<sources, heard, advertised, jobs>>

\* Workers that come are not bounded: each comes once for a time that it goes.
WorkersCome ==
    /\ \/ \E a \in Apps : Relate(a)
       \/ \E u \in Units : UnitJoins(u) \/ \E R \in Advertised : UnitPublishes(u, R)
    /\ UNCHANGED <<proxyVars, changes>>

(* A hook of peer c. *)

\* The sources are read with everything else, when the hook starts.
Hears(c) ==
    /\ heard' = [heard EXCEPT ![c] = IF pc'[c] = "reconcile" THEN sources ELSE NoView]
    /\ UNCHANGED <<sources, proxy, advertised, jobs, changes>>

HookStarts(c, e) == Dispatch(c, e) /\ Hears(c)
HookRetries(c) == Retry(c) /\ Hears(c)

NginxReconciles(c) ==
    /\ Reconcile(c)
    /\ proxy' = [proxy EXCEPT ![c] = ProxyConfig(c, view[c], heard[c])]
    /\ UNCHANGED <<sources, heard, advertised, jobs, changes>>

PoliciesReconcile(c) == ReconcilePolicies(c) /\ UNCHANGED <<proxyVars, changes>>

HookEnds(c) == heard' = [heard EXCEPT ![c] = NoView]

\* The URLs go with the publication, the jobs to Prometheus, both if the unit leads.
HookCommits(c) ==
    /\ Commit(c)
    /\ advertised' = [a \in Apps |-> IF Writes(c, a) THEN ProxyUrls(c, view[c], heard[c])
                                                     ELSE advertised[a]]
    /\ jobs' = IF publishing[c] THEN ScrapeJobs(c, view[c]) ELSE jobs
    /\ HookEnds(c)
    /\ UNCHANGED <<sources, proxy, changes>>

HookRefused(c) ==
    CommitRefused(c) /\ HookEnds(c) /\ UNCHANGED <<sources, proxy, advertised, jobs, changes>>

HookFails(c) ==
    /\ KubernetesFails(c)
    /\ HookEnds(c)
    /\ Change
    /\ UNCHANGED <<sources, proxy, advertised, jobs>>

CertificateIssued(c) == Issue(c) /\ UNCHANGED <<proxyVars, changes>>

HookProceeds(c) ==
    NginxReconciles(c) \/ PoliciesReconcile(c) \/ HookCommits(c) \/ HookRefused(c)

TelemetryNext ==
    \/ \E l \in LokiUnits : LokiJoins(l) \/ LokiPublishes(l) \/ LokiDeparts(l)
    \/ RemoteWriteChanges
    \/ \E r \in Receivers : TracingChanges(r)
    \/ OtherChanges
    \/ WorkersCome
    \/ \E c \in Peers :
          \/ NginxStartsAnew(c) \/ CertificateIssued(c)
          \/ HookRetries(c) \/ HookProceeds(c) \/ HookFails(c)
    \/ \E c \in Peers, e \in Events : HookStarts(c, e)

TelemetrySpec == TelemetryInit /\ [][TelemetryNext]_telemetryVars

-----------------------------------------------------------------------------
(* Properties. *)

\* Where a request to a path of the proxy may end up, by the locations that have it and
\* the upstreams that have the name of its backend.
Reaches(config, path) ==
    UNION {{[host |-> h, port |-> u.port] : h \in config.book[u.key]} :
              u \in {w \in config.upstreams :
                        /\ w.key \in DOMAIN config.book
                        /\ \E l \in config.locations : l.path = path /\ l.backend = w.name}}

\* The URL leads, through the nginx of peer c, to what it stands for and nowhere else.
Leads(c, url) ==
    /\ proxy[c].scheme = url.scheme
    /\ Reaches(proxy[c], url.path) = {Server(url.stands_for)}

\* Nothing is left to do, for any peer or for the authority.
Settled ==
    /\ \A c \in Peers : Quiet(c) /\ (request[c] # {} => issued[c])
    /\ CanHandleEvents(Now(leader))
    /\ TopologyUnits(Now(leader)) # {}

\* A Loki unit that is related and has no URL yet is advertised all the same.
Standing(url) == url.stands_for \in Endpoints(Now(leader), sources)

\* "The coordinator's proxy url which maps to the upstream" (the docstrings of the properties
\* that publish_data is given): every endpoint has its URL, and a URL, whichever unit of the
\* coordinator answers, leads to the endpoint it stands for, by the scheme that unit serves.
UrlsLead ==
    Settled =>
        \A a \in Apps : RemoteDataReady(Now(leader), a) =>
            /\ {url.stands_for : url \in {w \in advertised[a] : Standing(w)}}
                   = {e \in Endpoints(Now(leader), sources) : e.kind # "metrics"}
            /\ \A url \in advertised[a] : Standing(url) => \A c \in Peers : Leads(c, url)

\* Each worker is scraped, through any unit of the coordinator.
JobsLead ==
    Settled =>
        /\ {job.stands_for : job \in jobs} = Endpoint("metrics", TopologyUnits(Now(leader)))
        /\ \A job \in jobs : \A c \in Peers : Leads(c, job)

\* _upstreams_to_addresses is begun with the addresses of each role, which the charm's own
\* upstreams of nginx look up, and then updated with those of the endpoints: a unit with
\* nothing left to do still routes each role to all of its workers and to nothing else.
RolesRouted ==
    \A c \in Peers : Quiet(c) /\ CanHandleEvents(Now(c)) =>
        \A r \in Roles : /\ r \in DOMAIN proxy[c].book
                         /\ proxy[c].book[r] = GatherAddressesByRole(Now(c))[r]

\* What a search may be narrowed to and still be stable.
StableSearches ==
    UNION {IF Stable(apps) THEN {apps} ELSE {} : apps \in (SUBSET ExchangeApps) \cup {NoFilter}}

\* find_correlated_datasource, with and without the logging relations of the moment as its
\* endpoint_relations, finds a datasource whenever there is one and keeps to it.
CorrelationIsStable ==
    {NoFilter, {LokiApp[l] : l \in LokiRelated(sources)}} \subseteq StableSearches
=============================================================================
