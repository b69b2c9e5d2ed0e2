SPECIFICATION FairSpec
CONSTANTS
  Member = {"a", "b"}
  Order <- TwoGroups
  Assigned <- AnyThenFallback
  Tour <- GThenH
  Latency = {1, 4}
  Wired = TRUE
  Tolerance = 1
  MinDwell = 2
  FailbackHold = 2
  FlapPenalty = 4
  SuppressAt = 2
  ReuseAt = 1
  MaxSuppress = 2
  Decay <- ThreeQuarters
  ConsecutiveFailures = 2
  BaseEjection = 1
  MaxEjection = 2
  MaxPenalty = 8
  MaxChanges = 3
INVARIANT
  TypeOK
PROPERTIES
  NoBlackhole
  FailbackEarned
  Converges
CHECK_DEADLOCK FALSE
