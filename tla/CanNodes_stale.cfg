SPECIFICATION Spec
CONSTANTS
  Lpc = Lpc
  Pico = Pico
  VerifyPolls = 2
  WaitPolls = 2
  Polls = 2
  MaxSends = 2
  MaxErrors = 0
  MaxSpiFaults = 0
INVARIANT GreenMeansHeard
