SPECIFICATION Spec
CONSTANTS
  p1 = p1
  p2 = p2
  n1 = n1
  n2 = n2
  None = None
  Policies = {p1, p2}
  Nodes = {n1}
  Zones <- OneZone
  UserModes <- ModeEach
  UserSels <- OnOrOff
  UserZones <- NoZones
  NodeLag = FALSE
  Daemons = {n1}
  MaxEdits = 3
  MaxFaults = 0
PROPERTIES OwnershipSpec
\* With no edit left and nothing queued both processes rest.
CHECK_DEADLOCK FALSE
