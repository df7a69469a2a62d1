SPECIFICATION FairSpec
CONSTANTS
  c1 = c1 c2 = c2 t1 = t1 t2 = t2 l1 = l1 l2 = l2 p1 = p1 k1 = k1
  a = a b = b s1 = s1
  NoData = NoData NoRelation = NoRelation NoConfig = NoConfig NoTLS = NoTLS
  InFlux = InFlux NoInput = NoInput
  Torn = Torn NoSpec = NoSpec NoPorts = NoPorts NoLabels = NoLabels Down = Down
  Bags <- TwoBags
  Roles = {a}
  Services = {a}
  Specs = {s1}
  Leadership = {FALSE}
  LayerOf <- OneServiceLayer
  BasePlan <- NoPlan
  Faults = {}
INVARIANTS
  ServicesRun
  RestartSafety
  NoStaleService
  BundleTrusted
PROPERTIES
  ConfigPropagates
  RestartsCease
  RemovalStopsServices
