SPECIFICATION Spec
CONSTANTS
  MaxRetries = 3
  SeqMod = 2
  DataLen = 11
  CtrlLen = 7
  LpcFifo = 16
  PeerFifo = 32
  Timely = TRUE
  MaxRounds = 2
  MaxFaults = 2
PROPERTY DeliveredMeansTaken
