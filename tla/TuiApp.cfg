CONSTANTS
  LockAfter = 3
  MaskAfter = 1
  MaxId = 2
SPECIFICATION FairSpec
CHECK_DEADLOCK FALSE
INVARIANTS
  TypeOK
  ShownItemLive
  ScreenInTime
  SecretInTime
PROPERTIES
  AfterFailureOnlyReopen
  LocksWhenIdle
