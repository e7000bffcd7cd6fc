CONSTANTS
  p1 = p1
  p2 = p2
  Processes = {p1, p2}
  Forcing = {p1}
  Nobody = Nobody
  SyncOutcomes = {TRUE, FALSE}
  Foreign = {"vault", "out"}
  MaxFiles = 3
  MaxBackups = 2
  MaxFaults = 2
SPECIFICATION Spec
CHECK_DEADLOCK FALSE
INVARIANTS
  TypeOK
  NoTornFile
  PromisedSurvives
PROPERTIES
  OnlySavesReplace
