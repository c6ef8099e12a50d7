SPECIFICATION FairSpec
CONSTANTS
  WaitLimit = 20
  IrcMHz = 4
  XtalMHz = 12
  FccoMHz = 288
  FastMHz = 100
  SlowMHz = 80
INVARIANTS TypeOK FlashKeepsUp 
PROPERTIES ClockStays BootNeverHangs
CHECK_DEADLOCK FALSE
