---------------------------- MODULE TelemetryInv ----------------------------
(***************************************************************************)
(* The inductive strengthening of UrlsLead and JobsLead, beside that of    *)
(* CoordinatorInv, and what they ask of the names of the endpoints.  TLC   *)
(* checks it on the instance of MCTelemetry, TelemetryProofs proves it.    *)
(***************************************************************************)
EXTENDS Telemetry, CoordinatorInv

\* A hook with no event queued behind it has read the sources of the present.
HeardIsFresh(c) == Running(c) /\ pending[c] = {} => heard[c] = sources

\* Once a hook has reconciled nginx it proxies what the hook read.
ProxyFollows(c) ==
    /\ pc[c] \in {"policies", "commit"} /\ pending[c] = {} =>
           proxy[c] = ProxyConfig(c, view[c], heard[c])
    /\ Quiet(c) /\ CanHandleEvents(Now(c)) => proxy[c] = ProxyConfig(c, Now(c), sources)

\* No other peer writes what the quiet leader advertises.
AdvertisedHolds(c) ==
    Quiet(c) /\ leader = c /\ CanHandleEvents(Now(c)) =>
        /\ \A a \in Apps : RemoteDataReady(Now(c), a) =>
               advertised[a] = ProxyUrls(c, Now(c), sources)
        /\ jobs = ScrapeJobs(c, Now(c))

ProxyInv(c) == HeardIsFresh(c) /\ ProxyFollows(c) /\ RequestFollows(c) /\ AdvertisedHolds(c)

TelemetryTyped ==
    /\ sources \in Sources
    /\ heard \in [Peers -> Sources \cup {NoView}]
    /\ DOMAIN proxy = Peers

\* What the peers have read of the sources, and leave behind when they have nothing left to
\* handle.
TelemetrySafety == TelemetryTyped /\ \A c \in Peers : ProxyInv(c)

-----------------------------------------------------------------------------
\* What there may be, while the charm returns the remote writes of l.
Possible(l) ==
    Endpoint("metrics", Units) \cup Endpoint("logging", LokiUnits)
        \cup Endpoint("remote-write", {l[i] : i \in DOMAIN l}) \cup Endpoint("tracing", Receivers)

\* No two endpoints, of one kind or of two, have the same name, or the same key for their
\* addresses.
NamesDiffer ==
    \A l \in RemoteWrites : \A d, e \in Possible(l) :
        d # e => UpstreamName(d) # UpstreamName(e) /\ LookupKey(d) # LookupKey(e)

\* No endpoint has a role for the key of its addresses.  The code sees to that for units,
\* whose names have a slash, and for receivers, whose names have a prefix, but not for the
\* hosts of remote writes.
RolesDiffer ==
    \A l \in RemoteWrites : \A e \in Possible(l) : LookupKey(e) \notin Roles

\* The units there may be, and their names with the slash replaced.
AllUnits == Units \cup LokiUnits
DashedUnits == {Dashed[u] : u \in AllUnits}

\* What the code and Juju see to: a unit is an application and a number, after the only slash
\* there is, and a receiver ends with a protocol.  That no unit is related both as a worker and
\* as a Loki is what the two endpoints are for.
UnitsAreNamed ==
    /\ Units \cap LokiUnits = {}
    /\ \A u, w \in AllUnits : u # w => Dashed[u] # Dashed[w]
    /\ Receivers \cap (AllUnits \cup DashedUnits) = {}
    /\ Roles \cap (AllUnits \cup Receivers) = {}
    /\ \A l \in RemoteWrites : \A i \in DOMAIN l : Label[l[i].host] \notin AllUnits

\* What is left to the hosts of the remote writes: that none is called like a unit, a receiver
\* or another one, and none like a role.
HostsAreApart ==
    \A l \in RemoteWrites : \A i \in DOMAIN l :
        /\ Label[l[i].host] \notin DashedUnits \cup Receivers
        /\ \A j \in DOMAIN l : l[i] # l[j] => Label[l[i].host] # Label[l[j].host]
HostsAreNoRoles == \A l \in RemoteWrites : \A i \in DOMAIN l : Label[l[i].host] \notin Roles
=============================================================================
