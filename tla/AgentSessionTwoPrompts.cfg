SPECIFICATION FairSpec
CONSTANTS
  Prompts = {p, q}
  Commands = {}
  Exceptions = {"overlap", "resume", "fork"}
  Nil = Nil
  MaxRetries = 1
  MaxFailures = 2
  MaxToolTurns = 0
  MaxSessions = 2
  MaxCompactions = 0
PROPERTIES PromptSettles
CHECK_DEADLOCK FALSE
