SPECIFICATION FairSpec
CONSTANTS
  x = x y = y x0 = x0 x1 = x1 y0 = y0 read = read write = write all = all
  NoRelation = NoRelation NoS3 = NoS3 NoTLS = NoTLS NoData = NoData
  NoNginx = NoNginx NoView = NoView
  Peers = {c0}
  Apps = {x}
  Units = {x0, x1}
  AppOf <- AppOfUnit
  Roles = {read}
  MetaRoles <- NoMetaRoles
  Minimal = {read}
  Advertised = {{read}}
  S3Infos = {s3a}
  Authority = {TRUE, FALSE}
  Mesh = {FALSE}
  Faults = {"nginx"}
INVARIANTS
  TypeOK
  NginxIsCurrent
  CertificateNamesWorkers
PROPERTIES
  PublicationSettles
