SPECIFICATION Spec
CONSTANTS
  p1 = p1
  p2 = p2
  n1 = n1
  n2 = n2
  t1 = t1
  s0 = s0
  s1 = s1
  None = None
  Policies = {p1, p2}
  Nodes = {n1, n2}
  Zones <- TwoZones
  TsConfigs = {t1}
  MigSlices = {s0}
  NoSlices = s0
  Digests <- TwoDigests
  DpDigest <- TsDigest
  MigDigest <- SliceDigest
  NameExtends <- DistinctNames
  UserSpecs <- Contents
  UserZones <- TwoZones
  MigNodes = {}
  NodeLag = FALSE
  ConfigLag = FALSE
  MaxEdits = 3
  MaxFaults = 2
INVARIANTS OwnerHasMode  NoOrphans NoLeftoverConfig SettledConfig SettledStatus
\* With no edit left and nothing queued the controller rests.
CHECK_DEADLOCK FALSE
