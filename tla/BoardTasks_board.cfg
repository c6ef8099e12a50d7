SPECIFICATION FairSpec
CONSTANTS
  Slice = 8
  FifoSize = 2
  Banner = 3
  EchoLen = 2
  PutTicks = 1
  PollTicks = 2
  LedTicks = 3
  RoundTicks = 4
  MaxKeys = 1
INVARIANTS TypeOK SetupHolds NoCharacterLost
PROPERTIES LedBlinks ConsoleAnswers
