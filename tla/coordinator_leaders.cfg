SPECIFICATION Spec
CONSTANTS
  x = x y = y x0 = x0 x1 = x1 y0 = y0 read = read write = write all = all
  NoRelation = NoRelation NoS3 = NoS3 NoTLS = NoTLS NoData = NoData
  NoNginx = NoNginx NoView = NoView
  Peers = {c0, c1}
  Apps = {x}
  Units = {x0}
  AppOf <- AppOfUnit
  Roles = {read}
  MetaRoles <- NoMetaRoles
  Minimal = {read}
  Advertised = {{read}}
  S3Infos = {s3a, NoS3}
  Authority = {FALSE}
  Mesh = {TRUE, FALSE}
  Faults = {"k8s"}
INVARIANTS
  MeshSafety
  PoliciesAreCurrent
  PublishedIsCurrent
SYMMETRY PeerSymmetry
