SPECIFICATION FairSpec
CONSTANTS
  MaxRetries = 3
  SeqMod = 2
  DataLen = 11
  CtrlLen = 7
  LpcFifo = 16
  PeerFifo = 32
  Timely = TRUE
  MaxRounds = 3
  MaxFaults = 2
INVARIANTS CleanRound CleanHalfDuplex TypeOK LinkInv
PROPERTIES EchoFresh ComesToRest
