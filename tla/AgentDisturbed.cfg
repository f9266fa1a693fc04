SPECIFICATION FairSpec
CONSTANTS
  Msgs = {m1, m2}
  SteeringMode = "one-at-a-time"
  FollowUpMode = "all"
  Disturbances = {"reset", "throw"}
  Nil = Nil
  MaxRuns = 2
  MaxToolTurns = 1
  MaxCalls = 1
INVARIANTS EachMessageOnce
PROPERTIES RunsSettleUnlessRejected
CHECK_DEADLOCK FALSE
