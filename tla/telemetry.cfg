SPECIFICATION TelemetrySpec
CONSTANTS
  x = x x0 = x0 read = read l0 = l0 p1 = p1 p2 = p2 h1 = h1 h2 = h2
  xName = xName lName = lName hName = hName
  NoRelation = NoRelation NoS3 = NoS3 NoTLS = NoTLS NoData = NoData
  NoNginx = NoNginx NoView = NoView
  Changes = 1
  Peers = {c0, c1}
  Apps = {x}
  Units = {x0}
  AppOf <- AppOfUnit
  Roles = {read}
  MetaRoles <- NoMetaRoles
  Minimal = {read}
  Advertised = {{read}}
  S3Infos = {s3a}
  Authority = {TRUE, FALSE}
  Mesh = {FALSE}
  Faults = {"k8s", "nginx"}
  LokiUnits = {l0}
  LokiServer <- LokiServers
  RemoteWrites <- SomeRemoteWrites
  Receivers <- OneReceiver
  TracingServer <- TracingServers
  Dashed <- DashedNames
  Label <- OwnLabel
  g1 = g1 g2 = g2 a1 = a1 a2 = a2
  ExchangeApps = {a1, a2}
  LokiApp <- LokiApps
  Ids = {1, 2, 3}
  Databags <- SomeDatabags
  Grafanas = {g1, g2}
  NoDatabag = NoDatabag Invalid = Invalid NoDatasource = NoDatasource NoFilter = NoFilter
INVARIANTS
  TelemetrySafety
  UrlsLead
  JobsLead
  RolesRouted
  CorrelationIsStable
SYMMETRY PeerSymmetry
