SPECIFICATION FairSpec
CONSTANTS
  Bits = 2
  MaxWrite = 1
  MaxRead = 2
INVARIANTS TypeOK BusFree OkMeansDone
PROPERTY CallReturns
CHECK_DEADLOCK FALSE
