CONSTANTS
  s1 = s1
  s2 = s2
  Sessions = {s1, s2}
  t1 = t1
  Titles = {t1}
  v1 = v1
  Secrets = {v1}
  p1 = p1
  Passwords = {p1}
  Blank = Blank
  NotOpen = NotOpen
  NoKey = NoKey
  Nobody = Nobody
  RotationLimit = 8
  RetryAfterFailure = FALSE
  Operations = {"add", "delete", "rotate", "backup"}
  MaxTag = 4
  MaxId = 2
  MaxBatch = 1
  MaxFaults = 0
SPECIFICATION Spec
SYMMETRY Symmetry
INVARIANTS
  DeletedSecretsGone
PROPERTIES
  NoLostUpdate
  CounterAdvances
  IndexOnlyGrows
