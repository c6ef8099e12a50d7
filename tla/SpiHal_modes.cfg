SPECIFICATION FairSpec
CONSTANTS
  Hals = {"bb_lpc", "bb_rp", "hw_lpc", "hw_rp"}
  InitArgs <- MCInitArgs
  Width = 2
  MaxLen = 2
  Polls = 1
  Calls = 2
INVARIANTS TypeOK  ClockHeld
PROPERTIES QuietBus CallsReturn
