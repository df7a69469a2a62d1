----------------------------- MODULE MCTelemetry -----------------------------
(* Constants of Telemetry for TLC. *)
EXTENDS TelemetryInv, TLC

CONSTANTS x, x0, read, l0, p1, p2, h1, h2, g1, g2, a1, a2, xName, lName, hName

AppOfUnit == [u \in Units |-> x]
NoMetaRoles == [m \in {} |-> {}]
PeerSymmetry == Permutations(Peers)

Remote(h, p) == [host |-> h, port |-> p]

LokiServers == [l \in LokiUnits |-> Remote(l0, p1)]
TracingServers == [r \in Receivers |-> Remote(h2, p2)]

DashedNames == [u \in {x0, l0} |-> IF u = x0 THEN xName ELSE lName]

\* The host of the remote writes has a name of its own, or that of the Loki unit.
OwnLabel == [h \in {h1, h2} |-> IF h = h1 THEN hName ELSE h2]
LokiLabel == [h \in {h1, h2} |-> lName]

OneRemoteWrite == {<<>>, <<Remote(h1, p2)>>}

\* Datasources that differ in their type or their Grafana, alone and together.
Source(type, grafana) == [type |-> type, grafana |-> grafana]
SomeDatabags == {<<Source("loki", g1)>>, <<Source("loki", g2)>>,
                 <<Source("prometheus", g1), Source("loki", g2)>>}

SomeRemoteWrites == OneRemoteWrite \cup {<<Remote(h2, p1), Remote(h1, p2)>>}

OneReceiver == {<<"charm-tracing", "otlp_http">>}

LokiApps == [l \in LokiUnits |-> a1]

\* In both instances units are named as Juju names them; only the hosts differ.
ASSUME NamesAreGiven == UnitsAreNamed
=============================================================================
