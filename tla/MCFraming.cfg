SPECIFICATION FairSpec
CONSTANTS
  Radix = 2
  Payloads <- MCPayloads
  MaxMessages = 3
  MaxArrays = 1
INVARIANTS
  MessagesInOrder
PROPERTIES
  ReaderCatchesUp
CHECK_DEADLOCK FALSE
