SPECIFICATION Spec
CONSTANTS
  Prompts = {p}
  Commands = {b}
  Exceptions = {"overlap", "cut", "throw", "resume", "fork", "custom", "long"}
  Nil = Nil
  MaxRetries = 1
  MaxFailures = 1
  MaxToolTurns = 1
  MaxSessions = 2
  MaxCompactions = 2
INVARIANTS QueueIsSound SessionFollowsAgent ResultFollowsCall CompactionKeepsOwn
PROPERTIES PromptAwaitsRetry
CHECK_DEADLOCK FALSE
