SPECIFICATION FairSpec
CONSTANTS
  Files = {f}
  Handlers = {1, 2}
  Nil = Nil
  Faults = {"overlap", "late", "restart", "full"}
  MaxRetries = 3
  MaxWrites = 3
  MaxFaults = 2
INVARIANTS OnceOnly 
PROPERTIES UnreadIsKept EverythingIsTaken
CHECK_DEADLOCK FALSE
