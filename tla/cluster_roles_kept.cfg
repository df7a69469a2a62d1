SPECIFICATION ClusterSpec
CONSTANTS
  x = x x0 = x0 x1 = x1 read = read write = write all = all
  NoRelation = NoRelation NoS3 = NoS3 NoTLS = NoTLS NoData = NoData
  NoNginx = NoNginx NoView = NoView NoConfig = NoConfig
  InFlux = InFlux NoInput = NoInput
  Disruptions = 1
  Peers = {c0}
  Apps = {x}
  Units = {x0, x1}
  AppOf <- AppOfUnit
  Lead <- LeadUnit
  Roles = {read, write, all}
  MetaRoles <- AllMeansBoth
  Minimal = {read, write}
  Recommended <- TwoReadOneWrite
  DefaultRole = all
  Advertised = {{read}, {all}}
  S3Infos = {s3a, NoS3}
  Authority = {FALSE}
  Mesh = {FALSE}
  Faults = {"k8s"}
INVARIANTS
  CoherentIsAllocated
