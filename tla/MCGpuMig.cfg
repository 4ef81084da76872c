SPECIFICATION FairSpec
CONSTANTS
  p1 = p1
  p2 = p2
  n1 = n1
  n2 = n2
  t1 = t1
  s0 = s0
  s1 = s1
  None = None
  Policies = {p1, p2}
  Nodes = {n1}
  Zones <- TwoZones
  TsConfigs = {t1}
  MigSlices = {s0, s1}
  NoSlices = s0
  Digests <- TwoDigests
  DpDigest <- CollidingDigest
  MigDigest <- SliceDigest
  NameExtends <- DistinctNames
  UserSpecs <- MigPair
  UserZones = {}
  MigNodes = {n1}
  NodeLag = FALSE
  ConfigLag = FALSE
  MaxEdits = 3
  MaxFaults = 1
INVARIANTS NoLeftoverConfig SettledConfig SettledNodes
PROPERTIES RightStays MigRequestStands Converges 
\* With no edit left and nothing queued the controller rests.
CHECK_DEADLOCK FALSE
