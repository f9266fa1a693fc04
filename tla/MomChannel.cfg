SPECIFICATION FairChannelSpec
CONSTANTS
  Texts = {a, b}
  NoWork = NoWork
  ChannelFaults = {"runFails", "crash", "reordered", "gap", "stranger"}
  MaxMessages = 3
  MaxEvents = 2
  QueueLimit = 1
  PageLimit = 1
  MaxStarts = 2
  MaxChannelFaults = 1
INVARIANTS   QueueIsSound
 
CHECK_DEADLOCK FALSE
