SPECIFICATION FairSpec
CONSTANTS
  p1 = p1
  p2 = p2
  n1 = n1
  n2 = n2
  None = None
  Policies = {p1}
  Nodes = {n1}
  Zones <- OneZone
  UserModes <- OneMode
  UserSels <- OnOrOff
  UserZones <- NoZones
  NodeLag = FALSE
  Daemons = {n1}
  MaxEdits = 2
  MaxFaults = 0
PROPERTIES DeletionCompletes
\* With no edit left and nothing queued both processes rest.
CHECK_DEADLOCK FALSE
