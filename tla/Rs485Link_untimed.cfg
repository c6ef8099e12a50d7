SPECIFICATION Spec
CONSTANTS
  MaxRetries = 1
  SeqMod = 2
  DataLen = 11
  CtrlLen = 7
  LpcFifo = 16
  PeerFifo = 32
  Timely = FALSE
  MaxRounds = 3
  MaxFaults = 0
PROPERTY AckSound ImplementsTransfer
