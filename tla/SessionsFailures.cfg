CONSTANTS
  s1 = s1
  s2 = s2
  Sessions = {s1, s2}
  t1 = t1
  Titles = {t1}
  v1 = v1
  v2 = v2
  Secrets = {v1, v2}
  p1 = p1
  Passwords = {p1}
  Blank = Blank
  NotOpen = NotOpen
  NoKey = NoKey
  Nobody = Nobody
  RotationLimit = 4
  RetryAfterFailure = TRUE
  Operations = {"add", "update", "delete", "import", "rotate", "password", "backup"}
  MaxTag = 3
  MaxId = 1
  MaxBatch = 1
  MaxFaults = 1
SPECIFICATION Spec
SYMMETRY Symmetry
INVARIANTS
  RollbackRestoresSession
  SessionsFit
