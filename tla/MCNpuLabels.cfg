SPECIFICATION Spec
CONSTANTS
  p1 = p1
  p2 = p2
  n1 = n1
  n2 = n2
  None = None
  Policies = {p1, p2}
  Nodes = {n1}
  Zones <- TwoZones
  UserModes <- ModeEach
  UserSels <- EitherZone
  UserZones <- TwoZones
  NodeLag = TRUE
  Daemons = {}
  MaxEdits = 3
  MaxFaults = 1
INVARIANTS TypeOK LabelsTogether NoneForgotten
PROPERTIES AdoptsSelected
\* With no edit left and nothing queued both processes rest.
CHECK_DEADLOCK FALSE
