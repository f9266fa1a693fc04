SPECIFICATION Spec
CONSTANTS
  Msgs = {m1, m2, m3}
  SteeringMode = "one-at-a-time"
  FollowUpMode = "all"
  Disturbances = {"eager", "reject"}
  Nil = Nil
  MaxRuns = 2
  MaxToolTurns = 1
  MaxCalls = 2
SYMMETRY Symmetry
INVARIANTS ToolCallsAnswered TranscriptFollowsLoop NeverSentTwice RunsAreTracked
CHECK_DEADLOCK FALSE
