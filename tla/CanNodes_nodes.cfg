SPECIFICATION FairSpec
CONSTANTS
  Lpc = Lpc
  Pico = Pico
  VerifyPolls = 3
  WaitPolls = 3
  Polls = 2
  MaxSends = 3
  MaxErrors = 1
  MaxSpiFaults = 1
INVARIANTS TypeOK LoopingConfigured BenchPasses
PROPERTIES AtMostOnce InitSettles
