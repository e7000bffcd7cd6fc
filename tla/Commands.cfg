CONSTANTS
  one = one
  other = other
  Processes = {one, other}
  Runs <- TheRuns
  t1 = t1
  t2 = t2
  Titles = {t1, t2}
  Wanted = t1
  u1 = u1
  u2 = u2
  Users = {u1, u2}
  s1 = s1
  bin = bin
  Secrets = {s1, bin}
  Binary = bin
  m1 = m1
  m2 = m2
  Masters = {m1, m2}
  w = w
  Weak = {w}
  Nothing = Nothing
  Empty = Empty
  Keep = Keep
  Vaults <- TheVaults
  MaxFaults = 1
SPECIFICATION FairSpec
INVARIANTS
  TypeOK
  ExitCodeTrue
  ReadsOneCommit
  RevealedIsStored
PROPERTIES
  ChangesWhatWasShown
  NothingReplaced
  EndsWithItsInput
