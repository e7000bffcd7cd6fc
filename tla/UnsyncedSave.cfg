CONSTANTS
  p1 = p1
  p2 = p2
  Processes = {p1, p2}
  Forcing = {p1}
  Nobody = Nobody
  SyncOutcomes = {FALSE}
  Foreign = {"vault", "out"}
  MaxFiles = 3
  MaxBackups = 2
  MaxFaults = 1
SPECIFICATION Spec
CHECK_DEADLOCK FALSE
INVARIANTS
  ReportedSurvives
