CONSTANTS
  t1 = t1
  t2 = t2
  user = user
  s1 = s1
  nul = nul
  long = long
  huge = huge
  Empty = Empty
  Absent = Absent
  WrongType = WrongType
  None = None
  Texts = {t1, t2, user, s1, nul, long, huge, Empty}
  WithNul = {nul}
  Long = {long, huge}
  Huge = {huge}
  Extra = {"Group"}
  ItemLimit = 3
  LastId = 7
  Now = 5
  U32Max = 200
  Sources <- TheSources
  Vaults <- TheVaults
  MaxTag = 2
SPECIFICATION Spec
INVARIANTS
  TypeOK
  NothingLost
  TotpUsable
PROPERTIES
  EveryRecordOnce
  OnlyAddsUnasked
