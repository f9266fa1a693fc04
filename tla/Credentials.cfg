SPECIFICATION Spec
CONSTANTS
  Procs = {p, q}
  Providers = {anthropic, openai}
  CallsPerProc = 1
  Nil = Nil
  Dead = Dead
  Broken = Broken
  Faults = {"takeover", "crash", "answerLost", "clash"}
  MaxTries = 2
  MaxTokens = 3
SYMMETRY Symmetry
INVARIANTS RefreshOnce
PROPERTIES RefreshKeepsOthers
CHECK_DEADLOCK FALSE
