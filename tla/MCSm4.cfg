SPECIFICATION Spec
CONSTANTS
  Widths = {32, 64}
  Keys <- MCKeys
  IVs <- MCIVs
  Messages <- MCMessages
INVARIANTS Sm4TypeOK MatchesTestVector Unwinds ReturnsMessage
PROPERTY ImplementsChannel
CHECK_DEADLOCK FALSE
