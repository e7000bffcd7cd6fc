CONSTANTS
  p1 = p1
  p2 = p2
  Processes = {p1, p2}
  Forcing = {p1, p2}
  Nobody = Nobody
  SyncOutcomes = {TRUE}
  Foreign = {}
  MaxFiles = 3
  MaxBackups = 2
  MaxFaults = 0
SPECIFICATION Spec
CHECK_DEADLOCK FALSE
PROPERTIES
  RenamedNotDeleted
