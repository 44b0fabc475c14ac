SPECIFICATION FairSpec
CONSTANTS
  Radix = 2
  Payloads <- MCPayloads
  MaxMessages = 3
  MaxArrays = 1
INVARIANTS
  ChunkedMessagesSurvive
CHECK_DEADLOCK FALSE
