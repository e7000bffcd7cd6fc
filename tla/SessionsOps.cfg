CONSTANTS
  s1 = s1
  s2 = s2
  Sessions = {s1, s2}
  t1 = t1
  Titles = {t1}
  v1 = v1
  v2 = v2
  Secrets = {v1, v2}
  p1 = p1
  Passwords = {p1}
  Blank = Blank
  NotOpen = NotOpen
  NoKey = NoKey
  Nobody = Nobody
  RotationLimit = 5
  RetryAfterFailure = FALSE
  Operations = {"add", "update", "delete", "import", "rotate", "password"}
  MaxTag = 3
  MaxId = 2
  MaxBatch = 1
  MaxFaults = 1
SPECIFICATION Spec
SYMMETRY Symmetry
INVARIANTS
  TypeOK
  SaveUnderLock
  DiskReadable
  SessionMirrorsDisk
PROPERTIES
  ImplementsItemStore
