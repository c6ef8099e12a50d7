SPECIFICATION UtilSpec
CONSTANTS
  Byte = {0, 1, 2}
  SIZE = 5
  Payloads <- MCPayloads
  MAX_PAYLOAD = 1
  Span = 11
  Flips = 3
  Inits = 2
INVARIANTS UtilTypeOK CrcTellsDamage
PROPERTY ImplementsQueue
