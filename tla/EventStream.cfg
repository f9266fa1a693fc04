SPECIFICATION FairSpec
CONSTANTS
  Readers = {reader1, reader2}
  MaxPushes = 4
INVARIANTS ExactlyOnce
PROPERTIES EveryReaderReturns ImplementsChannel
CHECK_DEADLOCK FALSE
