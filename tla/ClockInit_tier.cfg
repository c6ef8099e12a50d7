SPECIFICATION Spec
CONSTANTS
  WaitLimit = 20
  IrcMHz = 4
  XtalMHz = 12
  FccoMHz = 288
  FastMHz = 100
  SlowMHz = 80
INVARIANT FallbackIsCrystal
CHECK_DEADLOCK FALSE
