SPECIFICATION Spec
CONSTANTS
  MaxCode = 3
  Value <- MCValue
  MaxLen = 6
  MaxCap = 11
INVARIANTS TypeOK EncodeFits DelimiterLast DecodeFits RoundTrip
CHECK_DEADLOCK FALSE
